---- MODULE Spec2Model ----
(***************************************************************************)
(* Verification model of the EE-bot moderation bot.                        *)
(*                                                                         *)
(* The module holds one state machine per component of the program:        *)
(*   - the blacklist filter      (src/utils/blacklist.py),                 *)
(*   - the verification token    (src/captcha_server.py),                  *)
(*   - the captcha submit flow   (src/captcha_server.py),                  *)
(*   - the automod flag flow     (src/cogs/automod.py),                    *)
(*   - the moderation actions    (src/cogs/automod.py, moderation.py).     *)
(* Each component has its own variables, its own initial condition and its *)
(* own next-state relation; a specification runs one component and keeps   *)
(* the variables of the others at their start-up values.                   *)
(*                                                                         *)
(* Strings are sequences of one-character strings, so that lower(),        *)
(* strip(), re.sub() and the `in` operator are computed, not assumed.      *)
(***************************************************************************)
EXTENDS Naturals, Integers, Sequences, FiniteSets, TLC

VARIABLES
    \* ---- blacklist filter (BlacklistFilter) ----
    words,      \* self._words: the set of terms
    pattern,    \* self._pattern: None, or the alternation's terms in order
    checked,    \* the value the last check() returned, with its argument
    mutation,   \* the last add_word()/remove_word() call and where it stands
    scan,       \* a check() call made by a handler and where it stands
    \* ---- verification token (captcha_server.py) ----
    now,        \* the clock, in seconds (int(time.time()))
    issued,     \* the tokens create_verification_token has returned
    decoded,    \* the value the last decode_verification_token returned
    \* ---- database (models.py) ----
    users,      \* table users: discord_id -> row
    events,     \* table user_events, in insertion order
    \* ---- captcha submit flow (CaptchaServer) ----
    requests,   \* the POST /verify/{token} requests and where each stands
    roles,      \* the members holding the verified role (platform state)
    \* ---- content screening (AutoModCog) ----
    messages,   \* table messages, in insertion order
    flows,      \* the posted messages and where on_message stands for each
    posted,     \* the messages present in their channel (platform state)
    alerts,     \* the alerts sent to the moderation channel
    \* ---- moderation (ModActionView, ModerationCog) ----
    modActions, \* table mod_actions, in insertion order
    warnings,   \* table warnings, in insertion order
    guild,      \* the accounts that are members of the guild (platform state)
    sanctions,  \* the timeouts, kicks and bans the platform has carried out
    clicks,     \* the button clicks on alerts and where each handler stands
    rendered,   \* the alerts whose message shows its buttons disabled
    commands,   \* the slash-command invocations and where each stands
    banned,     \* the accounts on the guild's ban list (platform state)
    \* ---- gateway events (listeners of the cogs) ----
    pending,    \* the listener calls dispatched and not yet run
    fkErrors,   \* the inserts the database refused for a missing users row
    \* ---- the handlers' awaits, in program order ----
    running     \* the handlers under way and the statement each stands at

filterVars == <<words, pattern, checked>>
stepVars == <<mutation, scan>>
tokenVars == <<now, issued, decoded>>
dbVars == <<users, events>>
verifyVars == <<requests, roles>>
flagVars == <<messages, flows, posted, alerts>>
modVars == <<modActions, warnings, guild, sanctions, clicks, rendered, commands,
            banned>>
listenerVars == <<pending, fkErrors>>
callVars == <<running>>

\* What the operations of one component leave alone: the other components.
outsideFilter == <<stepVars, tokenVars, dbVars, verifyVars, flagVars, modVars,
                   listenerVars, callVars>>
outsideToken == <<filterVars, stepVars, dbVars, verifyVars, flagVars, modVars,
                  listenerVars, callVars>>
outsideVerify == <<filterVars, stepVars, decoded, flagVars, modVars,
                   listenerVars, callVars>>
outsideFlag == <<filterVars, stepVars, tokenVars, verifyVars, modVars,
                 listenerVars, callVars>>
outsideMod == <<filterVars, stepVars, tokenVars, verifyVars, flagVars,
                listenerVars, callVars>>
outsideEngine == <<filterVars, stepVars, tokenVars, verifyVars, messages,
                   flows, alerts, callVars>>
outsideCalls == <<filterVars, stepVars, tokenVars, dbVars, verifyVars, flagVars,
                  modVars, listenerVars>>
outsideSteps == <<checked, tokenVars, dbVars, verifyVars, flagVars, modVars,
                  listenerVars, callVars>>

vars == <<words, pattern, checked, mutation, scan, now, issued, decoded, users, events,
          requests, roles, messages, flows, posted, alerts, modActions,
          warnings, guild, sanctions, clicks, rendered, commands, banned,
          pending, fkErrors, running>>

(***************************************************************************)
(* General helpers                                                         *)
(***************************************************************************)
Range(s) == {s[i] : i \in 1..Len(s)}

\* Every sequence over S of length at most n.
SeqsUpTo(S, n) == UNION {[1..k -> S] : k \in 0..n}

\* Every arrangement of the finite set S as a sequence without repetition.
RECURSIVE Perms(_)
Perms(S) ==
    IF S = {} THEN {<<>>}
    ELSE UNION {{<<x>> \o p : p \in Perms(S \ {x})} : x \in S}

\* Python's `sub in s` on strings.
Contains(sub, s) ==
    \E i \in 0..(Len(s) - Len(sub)) : SubSeq(s, i + 1, i + Len(sub)) = sub

(***************************************************************************)
(* Blacklist filter: src/utils/blacklist.py                                *)
(***************************************************************************)

\* Longest text handed to check().
MaxTextLen == 3

\* The characters texts are made of: a letter with leet glyphs, a letter
\* without, an upper-case letter, a glyph, white space, punctuation.
Chars == {"a", "x", "A", "4", " ", "-"}

Texts == SeqsUpTo(Chars, MaxTextLen)

\* The raw arguments add_word() and remove_word() are called with.
WordInputs ==
    { <<"a", "x">>, <<"A", "x", " ">>, <<"a", "4">>, <<"a", " ", "x">>,
      <<"x">>, <<" ">> }

\* The lines a blacklist.txt may hold (without the line break).
FileLines ==
    { <<"a", "x">>, <<" ", "X", " ">>, <<"#", "a">>, <<>>, <<"a", "4">> }

\* self._pattern = None: no compiled pattern (a compiled pattern always has
\* at least one alternative).
None == <<>>

_LEET_MAP ==
    [c \in {"0", "1", "3", "4", "5", "7", "@", "$", "!", "+"} |->
        CASE c = "0" -> "o" [] c = "1" -> "i" [] c = "3" -> "e"
          [] c = "4" -> "a" [] c = "5" -> "s" [] c = "7" -> "t"
          [] c = "@" -> "a" [] c = "$" -> "s" [] c = "!" -> "i"
          [] c = "+" -> "t"]

_DEFAULT_BLACKLIST == {}

LowerCaseLetters ==
    {"a", "b", "c", "d", "e", "f", "g", "h", "i", "j", "k", "l", "m",
     "n", "o", "p", "q", "r", "s", "t", "u", "v", "w", "x", "y", "z"}

UpperToLower ==
    [c \in {"A", "X"} |-> CASE c = "A" -> "a" [] c = "X" -> "x"]

\* str.lower() on one character of the model's alphabet.
LowerChar(c) == IF c \in DOMAIN UpperToLower THEN UpperToLower[c] ELSE c

\* str.lower()
lower(s) == [i \in 1..Len(s) |-> LowerChar(s[i])]

\* The characters \s matches and str.strip() removes.
IsSpace(c) == c \in {" ", "\t", "\n"}

\* The characters [a-z] matches.
IsLetter(c) == c \in LowerCaseLetters

RECURSIVE lstrip(_)
lstrip(s) ==
    IF s # <<>> /\ IsSpace(Head(s)) THEN lstrip(Tail(s)) ELSE s

RECURSIVE rstrip(_)
rstrip(s) ==
    IF s # <<>> /\ IsSpace(s[Len(s)])
    THEN rstrip(SubSeq(s, 1, Len(s) - 1))
    ELSE s

\* str.strip()
strip(s) == rstrip(lstrip(s))

\* The loop of _normalize: each character through _LEET_MAP.get(ch, ch).
Substitute(s) ==
    [i \in 1..Len(s) |->
        IF s[i] \in DOMAIN _LEET_MAP THEN _LEET_MAP[s[i]] ELSE s[i]]

\* re.sub(r"[^a-z]", "", s), a single call replacing only the first match.
StripNonLettersOnce(s) ==
    IF \E i \in 1..Len(s) : ~IsLetter(s[i])
    THEN LET i == CHOOSE k \in 1..Len(s) :
                      /\ ~IsLetter(s[k])
                      /\ \A j \in 1..(k - 1) : IsLetter(s[j])
         IN  SubSeq(s, 1, i - 1) \o SubSeq(s, i + 1, Len(s))
    ELSE s

\* re.sub(r"[^a-z]", "", s)
StripNonLetters(s) == SelectSeq(s, IsLetter)

\* re.sub(r"\s+", " ", s)
RECURSIVE CollapseSpaces(_)
CollapseSpaces(s) ==
    IF s = <<>> THEN <<>>
    ELSE IF IsSpace(Head(s))
         THEN <<" ">> \o CollapseSpaces(lstrip(s))
         ELSE <<Head(s)>> \o CollapseSpaces(Tail(s))

\* The collapsed form of _normalize.
collapsed(text) == StripNonLetters(Substitute(lower(text)))

\* The spaced form of _normalize.
spaced(text) == CollapseSpaces(Substitute(lower(text)))

\* _normalize returns f"{collapsed} {spaced}".
_normalize(text) == collapsed(text) \o <<" ">> \o spaced(text)

\* sorted(self._words, key=len, reverse=True): some order of the terms with
\* no shorter term before a longer one (the order among terms of one length
\* is that of the set's iteration and changes nothing a search observes).
RECURSIVE SortedLongestFirst(_)
SortedLongestFirst(ws) ==
    IF ws = {} THEN <<>>
    ELSE LET w == CHOOSE x \in ws : \A y \in ws : Len(x) >= Len(y)
         IN  <<w>> \o SortedLongestFirst(ws \ {w})

\* _compile_pattern: the value self._pattern gets for the term set ws.
_compile_pattern(ws) == IF ws = {} THEN None ELSE SortedLongestFirst(ws)

\* self._pattern.match(s): some alternative occurs at the start of s.
patternMatchAtStart(p, s) ==
    \E i \in 1..Len(p) :
        /\ Len(p[i]) <= Len(s)
        /\ lower(p[i]) = lower(SubSeq(s, 1, Len(p[i])))

\* self._pattern.search(s) under re.IGNORECASE: some alternative occurs.
PatternSearch(p, s) ==
    \E i \in 1..Len(p) : Contains(lower(p[i]), lower(s))

\* The terms check() appends for the text: the loop body's test.
MatchedWords(ws, p, text) ==
    IF p # None /\ PatternSearch(p, _normalize(text))
    THEN {w \in ws : Contains(w, _normalize(text))}
    ELSE {}

\* A check() that returns the prefilter's verdict as the flag and takes a
\* missing pattern to mean that there is nothing to prefilter.
checkPrefilterFlag(ws, p, text) ==
    LET hit == p = None \/ PatternSearch(p, _normalize(text))
        found == IF hit THEN {w \in ws : Contains(w, _normalize(text))} ELSE {}
    IN  {[done |-> TRUE, text |-> text, flagged |-> hit, matches |-> m] :
            m \in Perms(found)}

\* check(text): the values it may return (the order of matches is the
\* iteration order of a set).
check(ws, p, text) ==
    IF ws = {}
    THEN {[done |-> TRUE, text |-> text, flagged |-> FALSE, matches |-> <<>>]}
    ELSE {[done |-> TRUE, text |-> text,
           flagged |-> MatchedWords(ws, p, text) # {}, matches |-> m] :
            m \in Perms(MatchedWords(ws, p, text))}

NoCheck == [done |-> FALSE, text |-> <<>>, flagged |-> FALSE, matches |-> <<>>]

\* _load_from_file: the terms a file with these lines adds.
_load_from_file(lines) ==
    {lower(strip(l)) : l \in {x \in lines :
        /\ lower(strip(x)) # <<>>
        /\ Head(lower(strip(x))) # "#"}}

\* BlacklistFilter.__init__ with no blacklist.txt beside the program.
FilterIdle ==
    /\ words = _DEFAULT_BLACKLIST
    /\ pattern = _compile_pattern(_DEFAULT_BLACKLIST)
    /\ checked = NoCheck

\* BlacklistFilter.__init__: defaults, then the file, then the pattern.
FilterWith(lines) ==
    /\ words = _DEFAULT_BLACKLIST \cup _load_from_file(lines)
    /\ pattern = _compile_pattern(_DEFAULT_BLACKLIST \cup _load_from_file(lines))
    /\ checked = NoCheck

FilterInit == \E lines \in SUBSET FileLines : FilterWith(lines)

add_word(word) ==
    /\ words' = words \cup {strip(lower(word))}
    /\ pattern' = _compile_pattern(words')
    /\ checked' = NoCheck
    /\ UNCHANGED outsideFilter

remove_word(word) ==
    /\ words' = words \ {strip(lower(word))}
    /\ pattern' = _compile_pattern(words')
    /\ checked' = NoCheck
    /\ UNCHANGED outsideFilter

\* A call of check(): it runs to its return without yielding. The caller
\* has read the previous call's value before the next call is made.
Check(text) ==
    /\ checked = NoCheck
    /\ checked' \in check(words, pattern, text)
    /\ UNCHANGED <<words, pattern>>
    /\ UNCHANGED outsideFilter

FilterNext ==
    \/ \E w \in WordInputs : add_word(w)
    \/ \E w \in WordInputs : remove_word(w)
    \/ \E t \in Texts : Check(t)


(***************************************************************************)
(* The filter's calls, statement by statement                              *)
(*                                                                         *)
(* check(), add_word() and remove_word() are plain functions called on the *)
(* event loop's thread: a call that has started runs to its return before  *)
(* any other call starts.  A handler's check() is scheduled when its       *)
(* message arrives, which may be before, during or after a mutation.       *)
(***************************************************************************)

\* Longest text handed to a scheduled check().
MaxScanLen == 2

ScanTexts == SeqsUpTo(Chars, MaxScanLen)

NoMutation == [pc |-> "none", op |-> "none", word |-> <<>>, before |-> {}]

NoScan ==
    [pc |-> "idle", text |-> <<>>, issued |-> "none", sawPattern |-> None,
     sawWords |-> {}, hit |-> FALSE, flagged |-> FALSE, matches |-> <<>>]

StepsIdle ==
    /\ mutation = NoMutation
    /\ scan = NoScan

\* A mutation has changed self._words and not yet self._pattern.
MutationMidway == mutation.pc = "compile"

\* A check() has passed its first statement and not yet returned.
ScanMidway == scan.pc \in {"search", "loop"}

\* Calls that may be preempted: another thread may run at any point.
Preemptible(otherMidway) == TRUE

\* Plain functions on one thread: no statement of a call runs while another
\* call is between its first statement and its return.
RunsToCompletion(otherMidway) == ~otherMidway

\* The scan as the start of a new mutation leaves it: a returned value has
\* been consumed, a scheduled call was issued before the mutation.
ScanAtMutation ==
    IF scan.pc = "done" THEN NoScan
    ELSE IF scan.pc = "scheduled" THEN [scan EXCEPT !.issued = "before"]
    ELSE scan

\* add_word, first statement: self._words.add(word.lower().strip()).
AddWordUpdate(word) ==
    /\ mutation.pc \in {"none", "returned"}
    /\ RunsToCompletion(ScanMidway)
    /\ words' = words \cup {strip(lower(word))}
    /\ mutation' = [pc |-> "compile", op |-> "add", word |-> word,
                    before |-> words]
    /\ scan' = ScanAtMutation
    /\ UNCHANGED pattern
    /\ UNCHANGED outsideSteps

\* remove_word, first statement: self._words.discard(word.lower().strip()).
\* A removal of the word whose addition has just returned, when the term
\* was new, is recorded with the term set before the addition.
RemoveWordUpdate(word) ==
    /\ mutation.pc \in {"none", "returned"}
    /\ RunsToCompletion(ScanMidway)
    /\ words' = words \ {strip(lower(word))}
    /\ mutation' =
           IF /\ mutation.op = "add" /\ mutation.word = word
              /\ strip(lower(word)) \notin mutation.before
           THEN [pc |-> "compile", op |-> "add, remove", word |-> word,
                 before |-> mutation.before]
           ELSE [pc |-> "compile", op |-> "remove", word |-> word,
                 before |-> words]
    /\ scan' = ScanAtMutation
    /\ UNCHANGED pattern
    /\ UNCHANGED outsideSteps

\* add_word and remove_word, second statement: self._compile_pattern().
CompilePattern ==
    /\ mutation.pc = "compile"
    /\ RunsToCompletion(ScanMidway)
    /\ pattern' = _compile_pattern(words)
    /\ mutation' = [mutation EXCEPT !.pc = "returned"]
    /\ UNCHANGED <<words, scan>>
    /\ UNCHANGED outsideSteps

\* A message arrives and its handler's check(text) is scheduled.
ScheduleCheck(text) ==
    /\ scan.pc = "idle"
    /\ scan' = [NoScan EXCEPT
           !.pc = "scheduled", !.text = text,
           !.issued = CASE mutation.pc = "compile" -> "during"
                        [] mutation.pc = "returned" -> "after"
                        [] OTHER -> "before"]
    /\ UNCHANGED <<words, pattern, mutation>>
    /\ UNCHANGED outsideSteps

\* check, first statement: `if not self._words: return False, []`.
CheckEnter ==
    /\ scan.pc = "scheduled"
    /\ RunsToCompletion(MutationMidway)
    /\ scan' = IF words = {}
               THEN [scan EXCEPT !.pc = "done", !.sawWords = words]
               ELSE [scan EXCEPT !.pc = "search"]
    /\ UNCHANGED <<words, pattern, mutation>>
    /\ UNCHANGED outsideSteps

\* check: `if self._pattern and self._pattern.search(normalized)`.
CheckSearch ==
    /\ scan.pc = "search"
    /\ RunsToCompletion(MutationMidway)
    /\ LET hit == pattern # None /\ PatternSearch(pattern, _normalize(scan.text))
       IN  scan' = [scan EXCEPT !.pc = IF hit THEN "loop" ELSE "done",
                                !.hit = hit, !.sawPattern = pattern,
                                !.sawWords = IF hit THEN @ ELSE words]
    /\ UNCHANGED <<words, pattern, mutation>>
    /\ UNCHANGED outsideSteps

\* check: the loop over self._words and the return.
CheckLoop ==
    /\ scan.pc = "loop"
    /\ RunsToCompletion(MutationMidway)
    /\ \E m \in Perms({w \in words : Contains(w, _normalize(scan.text))}) :
          scan' = [scan EXCEPT !.pc = "done", !.sawWords = words,
                               !.flagged = m # <<>>, !.matches = m]
    /\ UNCHANGED <<words, pattern, mutation>>
    /\ UNCHANGED outsideSteps

StepsNext ==
    \/ \E w \in WordInputs : AddWordUpdate(w)
    \/ \E w \in WordInputs : RemoveWordUpdate(w)
    \/ CompilePattern
    \/ \E t \in ScanTexts : ScheduleCheck(t)
    \/ CheckEnter
    \/ CheckSearch
    \/ CheckLoop

(***************************************************************************)
(* Claims about the blacklist filter                                       *)
(***************************************************************************)

\* text is t with at least one of its letters replaced by a leet glyph that
\* _LEET_MAP maps to that letter, and nothing else changed.
IsLeetVariantOf(text, t) ==
    /\ Len(text) = Len(t)
    /\ \A i \in 1..Len(t) :
          \/ text[i] = t[i]
          \/ /\ IsLetter(t[i])
             /\ text[i] \in DOMAIN _LEET_MAP
             /\ _LEET_MAP[text[i]] = t[i]
    /\ \E i \in 1..Len(t) : text[i] # t[i]

\* C8: for every term t of the term set and every text obtained from t by
\* replacing letters with their leet glyphs, check flags the text and
\* reports t among the matches.
C8_LeetVariantsFlagged ==
    checked.done =>
        \A t \in words :
            IsLeetVariantOf(checked.text, t) =>
                checked.flagged /\ t \in Range(checked.matches)

\* C9: with an empty term set check returns (False, []) for every text.
C9_EmptySetNeverFlags ==
    (checked.done /\ words = {}) =>
        (~checked.flagged /\ checked.matches = <<>>)

\* A check of a non-empty text that ran against the empty term set.
C9_Witness ==
    /\ checked.done
    /\ words = {}
    /\ Len(checked.text) = MaxTextLen
    /\ \E i \in 1..Len(checked.text) : IsLetter(checked.text[i])

\* C10: the collapsed form is idempotent: the collapsed form of the
\* collapsed form of a text is the collapsed form of the text.
C10_CollapsedIdempotent ==
    checked.done =>
        collapsed(collapsed(checked.text)) = collapsed(checked.text)

\* A checked text whose collapsed form is not empty and differs from the
\* text: substitution, lower-casing or stripping did something.
C10_Witness ==
    /\ checked.done
    /\ collapsed(checked.text) # <<>>
    /\ collapsed(checked.text) # checked.text
    /\ \E i \in 1..Len(checked.text) : ~IsLetter(lower(checked.text)[i])

\* C33: check reports exactly the terms that occur in the normalized text:
\* a term is among the matches if and only if the normalized text contains
\* it, every contained term is reported, once, flagged is true if and only
\* if there is a match, and the combined pattern never makes the result
\* differ from that of the per-term containment test alone.
C33_MatchesAreTheContainedTerms ==
    checked.done =>
        /\ Range(checked.matches) =
               {w \in words : Contains(w, _normalize(checked.text))}
        /\ Len(checked.matches) = Cardinality(Range(checked.matches))
        /\ checked.flagged <=> checked.matches # <<>>

\* A check against three terms or more reported two of them, one found only
\* past the start of the normalized text, and left out one that the text
\* does not contain.
C33_Witness ==
    /\ checked.done
    /\ Len(checked.matches) = 2
    /\ Cardinality(words) >= 3
    /\ \E w \in Range(checked.matches) :
          /\ w # <<>>
          /\ SubSeq(_normalize(checked.text), 1, Len(w)) # w
    /\ \E w \in words : ~Contains(w, _normalize(checked.text))

\* C36: a term is reported as matched only if it occurs inside the
\* collapsed form or inside the spaced form of the text: no match comes
\* from characters that span the place where the normalized string joins
\* the two forms.
C36_NoMatchAcrossTheJunction ==
    checked.done =>
        \A w \in Range(checked.matches) :
            \/ Contains(w, collapsed(checked.text))
            \/ Contains(w, spaced(checked.text))

\* C40: the term set never holds the empty string, whatever file was
\* loaded and whatever add_word and remove_word were called with, so that
\* no term is found in every text: a text without any character is never
\* flagged.
C40_NoEmptyTerm ==
    /\ <<>> \notin words
    /\ (checked.done /\ checked.text = <<>>) => ~checked.flagged

(***************************************************************************)
(* Claims about mutations of the filter                                    *)
(***************************************************************************)

\* A check was issued after the last mutation returned and has returned.
CheckedAfterMutation ==
    /\ scan.pc = "done"
    /\ scan.issued = "after"
    /\ mutation.pc = "returned"

\* C11: a check issued after add_word(w) has returned flags every text
\* containing w; a check issued after remove_word(w) has returned no longer
\* reports w; add_word(w) followed by remove_word(w), for w not present
\* before, restores the classification of every text.
C11_MutationObserved ==
    CheckedAfterMutation =>
        /\ (mutation.op = "add" /\ Contains(mutation.word, scan.text))
              => scan.flagged
        /\ mutation.op \in {"remove", "add, remove"}
              => /\ mutation.word \notin Range(scan.matches)
                 /\ strip(lower(mutation.word)) \notin Range(scan.matches)
        /\ mutation.op = "add, remove"
              => /\ scan.flagged
                     = (MatchedWords(mutation.before,
                            _compile_pattern(mutation.before), scan.text) # {})
                 /\ Range(scan.matches)
                     = MatchedWords(mutation.before,
                           _compile_pattern(mutation.before), scan.text)

\* C12: a check that runs concurrently with add_word or remove_word
\* classifies against the complete old or the complete new term set: while
\* it runs the pattern is the one compiled from the term set, and what it
\* returns is the classification of its text against one term set, the one
\* before or the one after the mutation, with the pattern of that set.
C12_CheckSeesOneTermSet ==
    /\ ScanMidway => pattern = _compile_pattern(words)
    /\ scan.pc = "done" =>
          /\ scan.sawWords \in {words, mutation.before}
          /\ scan.hit => scan.sawPattern = _compile_pattern(scan.sawWords)
          /\ scan.flagged
                = (MatchedWords(scan.sawWords,
                       _compile_pattern(scan.sawWords), scan.text) # {})
          /\ Range(scan.matches)
                = MatchedWords(scan.sawWords,
                      _compile_pattern(scan.sawWords), scan.text)

\* A check scheduled while add_word was between its two statements has
\* returned and reports the added term.
C12_Witness ==
    /\ scan.pc = "done"
    /\ scan.issued = "during"
    /\ mutation.op = "add"
    /\ mutation.pc = "returned"
    /\ strip(lower(mutation.word)) \notin mutation.before
    /\ strip(lower(mutation.word)) \in Range(scan.matches)

(***************************************************************************)
(* Verification token: src/captcha_server.py, lines 34-54                  *)
(*                                                                         *)
(* _serializer is itsdangerous.URLSafeTimedSerializer.  A token is the     *)
(* text  payload "." timestamp "." signature:  the payload is the URL-safe *)
(* base64 of the JSON of str(user_id), the timestamp the base64 of the     *)
(* seconds at signing, the signature the base64 of an HMAC, keyed by the   *)
(* secret and the salt, over the text before the last ".".  loads()        *)
(* splits at the last ".", base64-decodes the signature and compares the   *)
(* bytes with the HMAC it computes, then splits off the timestamp and      *)
(* compares the age with max_age.                                          *)
(*                                                                         *)
(* A token is a sequence of bytes.  A byte is a character of the base64    *)
(* alphabet (its index, 0..63), the separator, or some other byte.  The    *)
(* HMAC-SHA1 digest has 20 bytes, 27 base64 characters of which the last   *)
(* carries 4 bits of the digest and 2 unused bits; the model's digest has  *)
(* 2 bytes, 3 characters of which the last carries 4 bits and 2 unused.    *)
(***************************************************************************)

TOKEN_MAX_AGE == 1800

\* The last second of the model's clock.
MaxNow == 2702
\* Tokens are issued during the first seconds of a run only.
MaxIssueAt == 1
\* The number of tokens issued in a run.
MaxTokens == 2

\* Discord user ids of the human participants.
Participants == {7, 12}

\* decode_verification_token's None.
NoUser == 0

SEP == 65
Bytes == 0..65
IsB64(b) == b < 64

SALT_CAPTCHA_VERIFY == 1

\* str(n) as decimal digits.
RECURSIVE Digits(_)
Digits(n) == IF n < 10 THEN <<n>> ELSE Digits(n \div 10) \o <<n % 10>>

\* The payload of a token for user_id: the text of str(user_id); the
\* characters "0".."9" are the indices 52..61 of the base64 alphabet.
Payload(user_id) ==
    [i \in 1..Len(Digits(user_id)) |-> 52 + Digits(user_id)[i]]

\* int(user_id_str) of a payload; NoUser when it is not a decimal number.
RECURSIVE ParseDigits(_)
ParseDigits(text) ==
    IF text = <<>> THEN 0
    ELSE 10 * ParseDigits(SubSeq(text, 1, Len(text) - 1))
            + (text[Len(text)] - 52)

PayloadUser(text) ==
    IF text # <<>> /\ \A i \in 1..Len(text) : text[i] \in 52..61
    THEN ParseDigits(text)
    ELSE NoUser

\* The timestamp of a token: the seconds, most significant character first,
\* without leading zero characters.
RECURSIVE TimestampText(_)
TimestampText(t) ==
    IF t < 64 THEN <<t>> ELSE TimestampText(t \div 64) \o <<t % 64>>

RECURSIVE TimestampValue(_)
TimestampValue(text) ==
    IF text = <<>> THEN 0
    ELSE 64 * TimestampValue(SubSeq(text, 1, Len(text) - 1)) + text[Len(text)]

\* The HMAC of a text under the secret and a salt, as 16 bits.  Two texts
\* that differ in one byte never have the same value (the modulus is prime),
\* which stands for the HMAC's collision resistance.
RECURSIVE HmacFrom(_, _)
HmacFrom(h, text) ==
    IF text = <<>> THEN h
    ELSE HmacFrom((h * 67 + Head(text) + 1) % 65521, Tail(text))

Hmac(salt, text) == HmacFrom(4241 + salt, text)

\* base64 of a 2-byte digest: 3 characters, the low 2 bits of the last unused.
SignatureText(digest) ==
    <<digest \div 1024, (digest \div 16) % 64, (digest % 16) * 4>>

\* base64_decode(sig) == digest.  The decoder drops the bytes outside the
\* alphabet, wants the padding that itsdangerous computed from the length of
\* the text as received, and ignores the unused bits of the last character.
SignatureMatches(sig, digest) ==
    LET valid == SelectSeq(sig, IsB64)
        pad == (4 - (Len(sig) % 4)) % 4
    IN  /\ Len(valid) = 3
        /\ pad >= 1
        /\ valid[1] * 1024 + valid[2] * 16 + (valid[3] \div 4) = digest

HasSep(text) == \E i \in 1..Len(text) : text[i] = SEP

\* text.rsplit(sep, 1)
LastSep(text) ==
    CHOOSE i \in 1..Len(text) :
        text[i] = SEP /\ \A j \in (i + 1)..Len(text) : text[j] # SEP

BeforeLastSep(text) == SubSeq(text, 1, LastSep(text) - 1)
AfterLastSep(text) == SubSeq(text, LastSep(text) + 1, Len(text))

\* _serializer.dumps(str(user_id), salt=...) at second t.
dumps(user_id, salt, t) ==
    LET value == Payload(user_id) \o <<SEP>> \o TimestampText(t)
    IN  value \o <<SEP>> \o SignatureText(Hmac(salt, value))

\* _serializer.loads(token, salt=..., max_age=...) at second t, followed by
\* int(): the user id, or NoUser for BadSignature and SignatureExpired.
loads(token, salt, max_age, t) ==
    IF ~HasSep(token) THEN NoUser
    ELSE LET value == BeforeLastSep(token)
             sig == AfterLastSep(token)
         IN  IF ~SignatureMatches(sig, Hmac(salt, value)) THEN NoUser
             ELSE IF ~HasSep(value) THEN NoUser
             ELSE LET ts == AfterLastSep(value)
                      age == t - TimestampValue(ts)
                  IN  IF \E i \in 1..Len(ts) : ~IsB64(ts[i]) THEN NoUser
                      ELSE IF age > max_age \/ age < 0 THEN NoUser
                      ELSE PayloadUser(BeforeLastSep(value))

create_verification_token(user_id, t) ==
    dumps(user_id, SALT_CAPTCHA_VERIFY, t)

\* The purpose tags (salts) the serializer may be called with: the one of
\* the verification token and another one.
PurposeTags == {SALT_CAPTCHA_VERIFY, SALT_CAPTCHA_VERIFY + 1}

\* A decode_verification_token that accepts an artifact under any tag.
decodeAnyPurpose(token, t) ==
    LET hits == {loads(token, salt, TOKEN_MAX_AGE, t) : salt \in PurposeTags}
                    \ {NoUser}
    IN  IF hits = {} THEN NoUser ELSE CHOOSE user_id \in hits : TRUE

\* A decode_verification_token that calls loads() without max_age.
decodeWithoutMaxAge(token, t) ==
    loads(token, SALT_CAPTCHA_VERIFY, t, t)

\* A decode_verification_token that turns a token down at the very end of
\* its validity window.
decodeBeforeMaxAge(token, t) ==
    loads(token, SALT_CAPTCHA_VERIFY, TOKEN_MAX_AGE - 1, t)

decode_verification_token(token, t) ==
    loads(token, SALT_CAPTCHA_VERIFY, TOKEN_MAX_AGE, t)

\* The texts that differ from token in exactly one byte.
SingleByteAlterations(token) ==
    UNION {{[token EXCEPT ![i] = b] : b \in Bytes \ {token[i]}} :
              i \in 1..Len(token)}

NoDecode == [done |-> FALSE, token |-> <<>>, result |-> NoUser]

TokenIdle ==
    /\ now = 0
    /\ issued = {}
    /\ decoded = NoDecode

\* A token is created for a participant (on join, on /reverify) and handed
\* to that participant.
Issue(p) ==
    /\ now <= MaxIssueAt
    /\ Cardinality(issued) < MaxTokens
    /\ issued' = issued \cup
           {[user_id |-> p, at |-> now,
             token |-> create_verification_token(p, now)]}
    /\ UNCHANGED <<now, decoded>>
    /\ UNCHANGED outsideToken

\* GET or POST /verify/{token} with a token as it was issued.
Decode(r) ==
    /\ decoded = NoDecode
    /\ decoded' = [done |-> TRUE, token |-> r.token,
                   result |-> decode_verification_token(r.token, now)]
    /\ UNCHANGED <<now, issued>>
    /\ UNCHANGED outsideToken

\* GET or POST /verify/{token} with an issued token altered in one byte.
DecodeAltered(token) ==
    /\ decoded = NoDecode
    /\ decoded' = [done |-> TRUE, token |-> token,
                   result |-> decode_verification_token(token, now)]
    /\ UNCHANGED <<now, issued>>
    /\ UNCHANGED outsideToken

\* GET or POST /verify/{token} with an artifact the serializer signed with
\* the same secret under another purpose tag at second t.
DecodeArtifact(p, salt, t) ==
    /\ decoded = NoDecode
    /\ salt # SALT_CAPTCHA_VERIFY
    /\ t <= now
    /\ decoded' = [done |-> TRUE, token |-> dumps(p, salt, t),
                   result |-> decode_verification_token(dumps(p, salt, t), now)]
    /\ UNCHANGED <<now, issued>>
    /\ UNCHANGED outsideToken

\* The handler answers the request with the page the result selects.
Respond ==
    /\ decoded.done
    /\ decoded' = NoDecode
    /\ UNCHANGED <<now, issued>>
    /\ UNCHANGED outsideToken

\* A second passes (no request is between its decode and its answer: the
\* handlers do not yield there).
Tick ==
    /\ decoded = NoDecode
    /\ now < MaxNow
    /\ now' = now + 1
    /\ UNCHANGED <<issued, decoded>>
    /\ UNCHANGED outsideToken

\* Half of the maximum age passes.
TickLong ==
    /\ decoded = NoDecode
    /\ now + (TOKEN_MAX_AGE \div 2) <= MaxNow
    /\ now' = now + (TOKEN_MAX_AGE \div 2)
    /\ UNCHANGED <<issued, decoded>>
    /\ UNCHANGED outsideToken

TokenNext ==
    \/ \E p \in Participants : Issue(p)
    \/ \E r \in issued : Decode(r)
    \/ Respond
    \/ Tick

TamperNext ==
    \/ \E p \in Participants : Issue(p)
    \/ \E r \in issued : Decode(r)
    \/ \E r \in issued : \E t \in SingleByteAlterations(r.token) :
          DecodeAltered(t)
    \/ Respond
    \/ TickLong

PurposeNext ==
    \/ \E p \in Participants : Issue(p)
    \/ \E r \in issued : Decode(r)
    \/ \E p \in Participants : \E salt \in PurposeTags :
          \E t \in 0..MaxIssueAt : DecodeArtifact(p, salt, t)
    \/ Respond
    \/ Tick
    \/ TickLong

(***************************************************************************)
(* Claims about the verification token                                     *)
(***************************************************************************)

\* The artifacts signed under another purpose tag than the verification
\* token's, up to the present second.
ForeignArtifacts ==
    {dumps(p, salt, t) : p \in Participants,
                         salt \in PurposeTags \ {SALT_CAPTCHA_VERIFY},
                         t \in 0..MaxIssueAt}

\* C32: within the validity window, validating the token issued for
\* participant p returns exactly p; an artifact signed with the same secret
\* under another purpose tag is rejected.
C32_TokenScopedToPurpose ==
    decoded.done =>
        /\ \A r \in issued :
              r.token = decoded.token /\ now - r.at <= TOKEN_MAX_AGE
                  => decoded.result = r.user_id
        /\ decoded.token \in ForeignArtifacts => decoded.result = NoUser

\* An artifact for a participant under another tag, as old as a token that
\* has been issued to that participant and is still valid, was rejected.
C32_Witness ==
    /\ decoded.done
    /\ decoded.result = NoUser
    /\ \E r \in issued :
          /\ now - r.at <= TOKEN_MAX_AGE
          /\ decode_verification_token(r.token, now) = r.user_id
          /\ \E salt \in PurposeTags \ {SALT_CAPTCHA_VERIFY} :
                decoded.token = dumps(r.user_id, salt, r.at)

\* C5: a token issued at T validates (the participant's id comes back) at
\* every time up to T + 29m59s and is rejected at every time from
\* T + 30m01s on.
C5_TokenAgeWindow ==
    decoded.done =>
        \A r \in issued :
            r.token = decoded.token =>
                /\ now - r.at <= TOKEN_MAX_AGE - 1 => decoded.result = r.user_id
                /\ now - r.at >= TOKEN_MAX_AGE + 1 => decoded.result = NoUser

\* An issued token is decoded 30m01s after its issue and is rejected.
C5_Witness ==
    /\ decoded.done
    /\ decoded.result = NoUser
    /\ \E r \in issued :
          r.token = decoded.token /\ now - r.at = TOKEN_MAX_AGE + 1

\* C6: a token that differs from an issued token in any single byte always
\* fails validation, at any time.
C6_AlteredTokenFails ==
    decoded.done =>
        ((\E r \in issued : decoded.token \in SingleByteAlterations(r.token))
            => decoded.result = NoUser)

(***************************************************************************)
(* Database: src/models.py, src/database.py                                *)
(***************************************************************************)

\* The rows user_events may hold in a run.
MaxEvents == 6

\* A row of users (username and display_name carry no behaviour and are
\* left out); row = FALSE: no row with this discord_id.  verified_at = -1
\* is NULL.
NoRow == [row |-> FALSE, is_verified |-> FALSE, verified_at |-> -1]

\* User(discord_id=..., is_verified=False)
NewUser == [row |-> TRUE, is_verified |-> FALSE, verified_at |-> -1]

\* UserEvent(user_id=..., event_type=...)
UserEvent(user_id, event_type) ==
    [user_id |-> user_id, event_type |-> event_type]

\* The rows of user_events for a user and an event type.
EventsOf(user_id, event_type) ==
    {i \in 1..Len(events) : events[i] = UserEvent(user_id, event_type)}

\* The human accounts: the participants and three members of staff.
SeniorMod == 21
JuniorMod == 22
Helper == 23
Moderators == {SeniorMod, JuniorMod, Helper}
Accounts == Participants \cup Moderators

\* An automated account.
Bots == {90}

\* A bot check that lets every target through.
neverBot(member) == FALSE

\* member.bot / message.author.bot
IsBot(member) == member \in Bots

\* The participants who accept no direct messages.
DmsBlocked == {12}

\* member.send(...): refused with Forbidden by a member who blocks direct
\* messages.
member_send(member) == IF member \in DmsBlocked THEN "Forbidden" ELSE "sent"

\* A notification whose Forbidden leaves the handler.
forbiddenNotSwallowed(outcome) == outcome = "Forbidden"

\* try: await member.send(...) / except discord.Forbidden: pass.  Whether
\* the outcome of the direct message leaves the handler.
NotifyRaises(outcome) == FALSE

\* An ensure-user that writes a fresh row over the one it finds.
ensureUserOverwrites(row) == NewUser

\* _ensure_user (ModerationCog, LoggingCog) and the same select-then-insert
\* in _log_message: the users row after it.
_ensure_user(row) == IF row.row THEN row ELSE NewUser

\* A session.add that puts the new row in the place of the table's last row.
sessionAddReplaces(table, row) ==
    IF table = <<>> THEN <<row>> ELSE [table EXCEPT ![Len(table)] = row]

\* session.add(row) for a table without a unique key on the row's content:
\* an INSERT of one more row.
session_add(table, row) == Append(table, row)

\* A transaction that keeps what it wrote although it failed.
sessionWithoutRollback(before, after, committed) == after

\* get_session: what a table holds after the `async with` block, given the
\* table before it, the table as the block's statements left it, and whether
\* the block and its commit went through (rollback otherwise).
get_session(before, after, committed) == IF committed THEN after ELSE before

DbIdle ==
    /\ users = [p \in Accounts \cup Bots |-> NoRow]
    /\ events = <<>>

(***************************************************************************)
(* Captcha submit flow: src/captcha_server.py, src/cogs/verification.py    *)
(***************************************************************************)

\* The POST requests of a run.
MaxRequests == 2

RequestIds == 1..MaxRequests

NoRequest ==
    [pc |-> "new", token |-> <<>>, user_id |-> NoUser, verifier |-> "none",
     grant |-> "none", page |-> "none"]

VerifyIdle ==
    /\ requests = [i \in RequestIds |-> NoRequest]
    /\ roles = {}

\* member.guild.system_channel: none configured, one the bot may post in,
\* one whose send raises Forbidden.
SystemChannels == {"none", "open", "Forbidden"}

\* Whether the handler turns to member.guild.system_channel when the direct
\* message is refused: on_member_join does, /reverify answers the moderator
\* and stops.
FallsBack(path) == path = "on_member_join"

\* A token as it was created and where its link went: the direct message,
\* else (if the handler falls back and a system channel is configured) the
\* system channel, else nowhere.
Delivery(path, member, t, system_channel) ==
    LET dm == member_send(member)
        tried == dm = "Forbidden" /\ FallsBack(path)
                     /\ system_channel # "none"
    IN  [user_id |-> member, at |-> t,
         token |-> create_verification_token(member, t),
         path |-> path, dm |-> dm,
         system_channel |-> IF dm = "sent" THEN "unused" ELSE system_channel,
         fallback |-> tried,
         delivered |-> IF dm = "sent" THEN "dm"
                       ELSE IF tried /\ system_channel = "open"
                       THEN "system channel"
                       ELSE "none"]

\* VerificationCog.on_member_join for a human member: the upsert of the
\* users row and the "join" event in one transaction, then the token and its
\* delivery (direct message, else the system channel, else a log line).
VerificationCog_on_member_join(p) ==
    /\ Len(events) < MaxEvents
    /\ now <= MaxIssueAt
    /\ Cardinality(issued) < MaxTokens
    /\ users' = [users EXCEPT ![p] = IF users[p].row THEN users[p] ELSE NewUser]
    /\ events' = Append(events, UserEvent(p, "join"))
    /\ \E system_channel \in SystemChannels :
          issued' = issued \cup
              {Delivery("on_member_join", p, now, system_channel)}
    /\ UNCHANGED <<now, requests, roles, fkErrors>>
    /\ UNCHANGED <<filterVars, stepVars, decoded, flagVars, modVars, callVars>>

\* The listener called for a join that is not followed any further.
on_member_join(p) == VerificationCog_on_member_join(p) /\ UNCHANGED pending

\* /reverify: a fresh token for a member, with no database access, sent as
\* a direct message only.
reverify(p) ==
    /\ now <= MaxIssueAt
    /\ Cardinality(issued) < MaxTokens
    /\ \E system_channel \in SystemChannels :
          issued' = issued \cup {Delivery("reverify", p, now, system_channel)}
    /\ UNCHANGED <<now, users, events, requests, roles>>
    /\ UNCHANGED outsideVerify

\* The token issued for one participant with the payload of another put in
\* its place.
WithPayloadOf(token, q) ==
    Payload(q) \o SubSeq(token, LastSep(BeforeLastSep(token)), Len(token))

\* The issued tokens whose link reached the participant.
Delivered == {r \in issued : r.delivered # "none"}

\* The tokens a POST may carry: those that reached a participant, and those
\* with another participant's id as payload.
PostedTokens ==
    {r.token : r \in Delivered}
        \cup {WithPayloadOf(r.token, q) : r \in Delivered, q \in Participants}

\* _handle_captcha_submit up to `await request.post()`: the token is decoded.
SubmitDecode(i, token) ==
    /\ requests[i].pc = "new"
    /\ LET user_id == decode_verification_token(token, now)
       IN  requests' = [requests EXCEPT ![i] =
               IF user_id = NoUser
               THEN [@ EXCEPT !.pc = "done", !.token = token,
                              !.page = "error: expired or invalid"]
               ELSE [@ EXCEPT !.pc = "form", !.token = token,
                              !.user_id = user_id]]
    /\ UNCHANGED <<now, issued, users, events, roles>>
    /\ UNCHANGED outsideVerify

\* The values of the form field h-captcha-response: none, a response the
\* provider accepts, a response it rejects.
CaptchaResponses == {"", "solved", "unsolved"}

\* A handler that sends whatever the form holds to the provider.
responseNeverMissing(captcha_response) == FALSE

\* `if not captcha_response`: the form field is absent or empty.
ResponseMissing(captcha_response) == captcha_response = ""

\* ... up to `await self._verify_hcaptcha(...)`: the form is read.
SubmitForm(i, captcha_response) ==
    /\ requests[i].pc = "form"
    /\ requests' = [requests EXCEPT ![i] =
           IF ResponseMissing(captcha_response)
           THEN [@ EXCEPT !.pc = "done", !.page = "error: complete the captcha"]
           ELSE [@ EXCEPT !.pc = "siteverify", !.verifier = captcha_response]]
    /\ UNCHANGED <<now, issued, users, events, roles>>
    /\ UNCHANGED outsideVerify

\* What the call of https://hcaptcha.com/siteverify comes to for a response:
\* the provider's answer, or an exception (network fault, no JSON).
SiteverifyOutcomes(captcha_response) ==
    {IF captcha_response = "solved" THEN "success" ELSE "failure", "fault"}

\* A _verify_hcaptcha that takes an exception for a success.
verifyFailOpen(outcome) == outcome # "failure"

\* _verify_hcaptcha: result.get("success", False), False on an exception.
_verify_hcaptcha(outcome) == outcome = "success"

\* ... up to `await self._complete_verification(user_id)`.
SubmitSiteverify(i, outcome) ==
    /\ requests[i].pc = "siteverify"
    /\ outcome \in SiteverifyOutcomes(requests[i].verifier)
    /\ requests' = [requests EXCEPT ![i] =
           IF _verify_hcaptcha(outcome)
           THEN [@ EXCEPT !.pc = "complete", !.verifier = outcome]
           ELSE [@ EXCEPT !.pc = "done", !.verifier = outcome,
                          !.page = "error: captcha failed"]]
    /\ UNCHANGED <<now, issued, users, events, roles>>
    /\ UNCHANGED outsideVerify

\* An UPDATE without its WHERE clause: every row is set.
updateWithoutWhere(table, user_id, t) ==
    [a \in DOMAIN table |->
        IF table[a].row
        THEN [table[a] EXCEPT !.is_verified = TRUE, !.verified_at = t]
        ELSE table[a]]

\* update(User).where(User.discord_id == user_id)
\*     .values(is_verified=True, verified_at=now): the row of that id, if
\* there is one, is set.
update_User(table, user_id, t) ==
    [table EXCEPT ![user_id] =
        IF @.row THEN [@ EXCEPT !.is_verified = TRUE, !.verified_at = t]
        ELSE @]

\* The transaction of _complete_verification: UPDATE users ... WHERE
\* discord_id = user_id, INSERT INTO user_events, commit.  The insert needs
\* the users row (foreign key); a failure rolls back and raises, and
\* _handle_captcha_submit answers with the error page.
SubmitCommit(i, storage) ==
    /\ requests[i].pc = "complete"
    /\ Len(events) < MaxEvents
    /\ LET user_id == requests[i].user_id
           updated == update_User(users, user_id, now)
           inserted == Append(events, UserEvent(user_id, "verified"))
           committed == storage = "ok" /\ users[user_id].row
       IN  /\ users' = get_session(users, updated, committed)
           /\ events' = get_session(events, inserted, committed)
           /\ requests' = [requests EXCEPT ![i] =
                  IF committed
                  THEN [@ EXCEPT !.pc = "role"]
                  ELSE [@ EXCEPT !.pc = "done",
                                 !.page = "error: try again later"]]
    /\ UNCHANGED <<now, issued, roles>>
    /\ UNCHANGED outsideVerify

\* The rest of _complete_verification: guild, member and role are looked up
\* ("skipped": one of them is missing, the method returns), the role is
\* added ("add_roles raised": the platform refuses) and the member is told
\* ("send raised").  An exception reaches _handle_captcha_submit, which
\* answers with the error page.
GrantOutcomes == {"granted", "skipped", "add_roles raised", "send raised"}

\* A grant step that undoes the verification when it fails.
RowResetOnFailure(row, outcome) ==
    IF outcome \in {"skipped", "add_roles raised"}
    THEN [row EXCEPT !.is_verified = FALSE, !.verified_at = -1]
    ELSE row

\* The users row after the grant step: the step runs after the session has
\* been closed and makes no database call.
RowAfterGrant(row, outcome) == row

SubmitGrant(i, outcome) ==
    /\ requests[i].pc = "role"
    /\ roles' = IF outcome \in {"granted", "send raised"}
                THEN roles \cup {requests[i].user_id}
                ELSE roles
    /\ requests' = [requests EXCEPT ![i] =
           [@ EXCEPT !.pc = "done", !.grant = outcome,
                     !.page = IF outcome \in {"granted", "skipped"}
                              THEN "success"
                              ELSE "error: try again later"]]
    /\ users' = [users EXCEPT ![requests[i].user_id] =
                     RowAfterGrant(@, outcome)]
    /\ UNCHANGED <<now, issued, events>>
    /\ UNCHANGED outsideVerify

\* Half of the maximum age passes.
VerifyTick ==
    /\ now + (TOKEN_MAX_AGE \div 2) <= MaxNow
    /\ now' = now + (TOKEN_MAX_AGE \div 2)
    /\ UNCHANGED <<issued, users, events, requests, roles>>
    /\ UNCHANGED outsideVerify

VerifyNext ==
    \/ \E p \in Participants : on_member_join(p)
    \/ \E p \in Participants : reverify(p)
    \/ \E i \in RequestIds : \E t \in PostedTokens : SubmitDecode(i, t)
    \/ \E i \in RequestIds : \E c \in CaptchaResponses : SubmitForm(i, c)
    \/ \E i \in RequestIds : \E o \in {"success", "failure", "fault"} :
          SubmitSiteverify(i, o)
    \/ \E i \in RequestIds : \E st \in {"ok", "failed"} : SubmitCommit(i, st)
    \/ \E i \in RequestIds : \E o \in GrantOutcomes : SubmitGrant(i, o)
    \/ VerifyTick

(***************************************************************************)
(* Claims about the captcha submit flow                                    *)
(***************************************************************************)

\* C3: a participant's verified flag is true only if some submit carried a
\* token that validated for that participant and the external verifier
\* answered success for that submit; a verifier fault, a non-success answer,
\* a missing response or an invalid token never leads to verified = true.
C3_VerifiedOnlyAfterSuccess ==
    \A p \in Participants :
        users[p].is_verified =>
            \E i \in RequestIds :
                /\ requests[i].user_id = p
                /\ requests[i].verifier = "success"
                /\ requests[i].pc \in {"role", "done"}

\* One participant has been verified by a submit, and another submit for a
\* participant with a row met a verifier fault and left that participant
\* unverified.
C3_Witness ==
    \E i, j \in RequestIds :
        /\ requests[i].pc = "done" /\ requests[i].page = "success"
        /\ users[requests[i].user_id].is_verified
        /\ requests[j].pc = "done" /\ requests[j].verifier = "fault"
        /\ requests[j].user_id # NoUser
        /\ users[requests[j].user_id].row
        /\ ~users[requests[j].user_id].is_verified

\* C18: if the access-grant step (guild lookup, member fetch, role lookup or
\* role assignment) fails after the verification transaction has committed,
\* the participant's verified flag stays true and the "verified" event
\* stays in the log.
C18_GrantFailureKeepsVerification ==
    \A i \in RequestIds :
        requests[i].grant \in {"skipped", "add_roles raised"} =>
            /\ users[requests[i].user_id].is_verified
            /\ users[requests[i].user_id].verified_at >= 0
            /\ EventsOf(requests[i].user_id, "verified") # {}

\* A submit whose transaction committed and whose role assignment raised:
\* the error page was served and the role was not granted.
C18_Witness ==
    \E i \in RequestIds :
        /\ requests[i].grant = "add_roles raised"
        /\ requests[i].page = "error: try again later"
        /\ requests[i].user_id \notin roles
        /\ users[requests[i].user_id].is_verified

C22_ValidationIsStateless ==
    /\ [](\A i \in RequestIds, r \in issued :
              /\ requests[i].pc # "new"
              /\ requests[i].token = r.token
              /\ now - r.at <= TOKEN_MAX_AGE
              => requests[i].user_id = r.user_id)
    /\ [][(\E i \in RequestIds :
               requests[i].pc = "new" /\ requests'[i].pc # "new")
          => UNCHANGED <<now, issued, users, events, roles>>]_vars

\* A submit with a token succeeded and the same token, by then at the end of
\* its validity window, validated for another request.
C22_Witness ==
    \E i, j \in RequestIds, r \in issued :
        /\ i # j
        /\ requests[i].token = r.token /\ requests[j].token = r.token
        /\ requests[i].pc = "done" /\ requests[i].page = "success"
        /\ users[r.user_id].is_verified
        /\ users[r.user_id].verified_at < now
        /\ now - r.at = TOKEN_MAX_AGE
        /\ requests[j].pc = "form" /\ requests[j].user_id = r.user_id

\* C23: when the direct message with the link is refused and the guild has
\* a system channel, delivery is attempted there, on every path that issues
\* a token, /reverify included.
C23_FallbackOnEveryIssuePath ==
    \A r \in issued :
        r.dm = "Forbidden" /\ r.system_channel # "none" => r.fallback

C38_CommittedSubmitAnswersSuccess ==
    \A i \in RequestIds :
        requests[i].pc = "done" =>
            /\ requests[i].grant # "none" => requests[i].page = "success"
            /\ requests[i].page # "success" => requests[i].grant = "none"

\* The rows of user_events of one account, in insertion order.
TrailOf(table, user_id) ==
    SelectSeq(table, LAMBDA e : e.user_id = user_id)

\* C39: a successful submit with the token issued for participant p changes
\* the verification state and the audit trail of p only: a request past its
\* validation acts for the participant its token was issued for, and the
\* steps that complete it leave the users row, the events and the role of
\* every other account as they were.
C39_SubmitTouchesItsParticipantOnly ==
    /\ [](\A i \in RequestIds :
              requests[i].user_id # NoUser =>
                  \E r \in issued : /\ r.token = requests[i].token
                                    /\ r.user_id = requests[i].user_id)
    /\ [][\A i \in RequestIds :
             ( /\ requests[i].pc \in {"complete", "role"}
               /\ requests'[i] # requests[i] )
             => \A q \in Accounts \ {requests[i].user_id} :
                    /\ users'[q] = users[q]
                    /\ TrailOf(events', q) = TrailOf(events, q)
                    /\ q \in roles' <=> q \in roles]_vars

\* A submit for one participant went through to the role while the other
\* participant, who has joined, is neither verified nor holds the role.
C39_Witness ==
    \E i \in RequestIds, q \in Participants :
        /\ requests[i].pc = "done" /\ requests[i].grant = "granted"
        /\ q # requests[i].user_id
        /\ requests[i].user_id \in roles
        /\ users[requests[i].user_id].is_verified
        /\ users[q].row /\ ~users[q].is_verified /\ users[q].verified_at = -1
        /\ q \notin roles
        /\ EventsOf(q, "join") # {}
        /\ EventsOf(q, "verified") = {}

\* C4: submitting the same still-valid token twice with a successful
\* external check each time reports success both times, leaves the
\* participant verified, and leaves exactly one "verified" event for that
\* participant.
C4_SecondSubmitNoDuplicate ==
    \A i, j \in RequestIds :
        ( /\ i # j
          /\ requests[i].token = requests[j].token
          /\ requests[i].pc = "done" /\ requests[i].page = "success"
          /\ requests[j].pc = "done" /\ requests[j].page = "success" )
        => /\ users[requests[i].user_id].is_verified
           /\ Cardinality(EventsOf(requests[i].user_id, "verified")) = 1

(***************************************************************************)
(* Content screening: src/cogs/automod.py                                  *)
(***************************************************************************)

\* The messages posted in a run.
MaxMessages == 2

MessageIds == 1..MaxMessages

Authors == Participants \cup Bots

\* What a posted message may say.
Contents == {<<>>, <<"a", "x">>, <<"A", "-", "x">>, <<"-">>}

NoFlow ==
    [pc |-> "unsent", author |-> NoUser, content |-> <<>>, matches |-> <<>>,
     delete |-> "none", in_guild |-> FALSE]

\* Message(message_id=..., user_id=..., flagged=..., flag_reason=...)
Message(message_id, user_id, flagged, flag_reason) ==
    [message_id |-> message_id, user_id |-> user_id, flagged |-> flagged,
     flag_reason |-> flag_reason]

\* The rows of messages for a message id.
MessagesOf(message_id) ==
    {i \in 1..Len(messages) : messages[i].message_id = message_id}

FlagIdle ==
    /\ messages = <<>>
    /\ flows = [m \in MessageIds |-> NoFlow]
    /\ posted = {}
    /\ alerts = {}

\* A message is posted and on_message runs up to its first await: nothing
\* happens for a bot's message, a message outside a guild, an empty message
\* and a message the filter does not flag.
on_message(m, author, in_guild, content) ==
    /\ flows[m].pc = "unsent"
    /\ posted' = posted \cup {m}
    /\ \E c \in check(words, pattern, content) :
          flows' = [flows EXCEPT ![m] =
              IF IsBot(author) \/ ~in_guild \/ content = <<>> \/ ~c.flagged
              THEN [@ EXCEPT !.pc = "returned", !.author = author,
                             !.content = content, !.in_guild = in_guild]
              ELSE [@ EXCEPT !.pc = "log", !.author = author,
                             !.content = content, !.in_guild = in_guild,
                             !.matches = c.matches]]
    /\ UNCHANGED <<messages, alerts, users, events>>
    /\ UNCHANGED outsideFlag

\* _log_message(flagged=True): one transaction that inserts the author's
\* users row if there is none and the messages row.  A failure rolls back
\* and the exception leaves on_message.
_log_message(m, storage) ==
    /\ flows[m].pc = "log"
    /\ LET author == flows[m].author
       IN  IF storage = "ok"
           THEN /\ users' = [users EXCEPT ![author] = _ensure_user(@)]
                /\ messages' = Append(messages,
                       Message(m, author, TRUE, flows[m].matches))
                /\ flows' = [flows EXCEPT ![m].pc = "event"]
           ELSE /\ flows' = [flows EXCEPT ![m].pc = "storage failed"]
                /\ UNCHANGED <<users, messages>>
    /\ UNCHANGED <<posted, alerts, events>>
    /\ UNCHANGED outsideFlag

\* _flag_message, the transaction of the "message_flagged" event.
FlagEvent(m, storage) ==
    /\ flows[m].pc = "event"
    /\ Len(events) < MaxEvents
    /\ IF storage = "ok" /\ users[flows[m].author].row
       THEN /\ events' = Append(events,
                   UserEvent(flows[m].author, "message_flagged"))
            /\ flows' = [flows EXCEPT ![m].pc = "alert"]
       ELSE /\ flows' = [flows EXCEPT ![m].pc = "storage failed"]
            /\ UNCHANGED events
    /\ UNCHANGED <<messages, posted, alerts, users>>
    /\ UNCHANGED outsideFlag

\* What bot.get_channel(mod_channel_id) returns.
ChannelLookups == {"text channel", "none", "not a text channel"}

\* What mod_channel.send(...) comes to.
SendOutcomes == {"sent", "raised"}

\* _flag_message from the channel lookup to the end of mod_channel.send: no
\* text channel, and the method returns; a send that raises leaves
\* on_message with the exception.
FlagAlert(m, channel, send) ==
    /\ flows[m].pc = "alert"
    /\ IF channel # "text channel"
       THEN /\ flows' = [flows EXCEPT ![m].pc = "returned"]
            /\ UNCHANGED alerts
       ELSE IF send = "raised"
       THEN /\ flows' = [flows EXCEPT ![m].pc = "send raised"]
            /\ UNCHANGED alerts
       ELSE /\ flows' = [flows EXCEPT ![m].pc = "delete"]
            /\ alerts' = alerts \cup {m}
    /\ UNCHANGED <<messages, posted, users, events>>
    /\ UNCHANGED outsideFlag

\* What message.delete() comes to.
DeleteOutcomes == {"deleted", "Forbidden", "NotFound"}

\* _flag_message, message.delete() and its except clauses.
FlagDelete(m, outcome) ==
    /\ flows[m].pc = "delete"
    /\ outcome = "NotFound" <=> m \notin posted
    /\ posted' = IF outcome = "deleted" THEN posted \ {m} ELSE posted
    /\ flows' = [flows EXCEPT ![m] =
           [@ EXCEPT !.pc = "returned", !.delete = outcome]]
    /\ UNCHANGED <<messages, alerts, users, events>>
    /\ UNCHANGED outsideFlag

\* The author or a moderator deletes a posted message by hand.
DeleteByHand(m) ==
    /\ m \in posted
    /\ posted' = posted \ {m}
    /\ UNCHANGED <<messages, flows, alerts, users, events>>
    /\ UNCHANGED outsideFlag

FlagNext ==
    \/ \E m \in MessageIds, a \in Authors, g \in BOOLEAN, c \in Contents :
          on_message(m, a, g, c)
    \/ \E m \in MessageIds, st \in {"ok", "failed"} : _log_message(m, st)
    \/ \E m \in MessageIds, st \in {"ok", "failed"} : FlagEvent(m, st)
    \/ \E m \in MessageIds, ch \in ChannelLookups, sd \in SendOutcomes :
          FlagAlert(m, ch, sd)
    \/ \E m \in MessageIds, o \in DeleteOutcomes : FlagDelete(m, o)
    \/ \E m \in MessageIds : DeleteByHand(m)

(***************************************************************************)
(* Claims about content screening                                          *)
(***************************************************************************)

\* The filter flags the message of a human author posted in the guild.
IsFlaggedPost(m) ==
    /\ flows[m].pc # "unsent"
    /\ flows[m].author \in Participants
    /\ flows[m].matches # <<>>

\* The flagged messages of an author for which the transaction of the event
\* has committed.
EventCommitted(a) ==
    {n \in MessageIds :
        /\ IsFlaggedPost(n)
        /\ flows[n].author = a
        /\ flows[n].pc \in {"alert", "delete", "returned", "send raised"}}

\* A flagged message has its ContentRecord with flagged = true.
FlaggedRecordPersisted(m) ==
    /\ Cardinality(MessagesOf(m)) = 1
    /\ \A i \in MessagesOf(m) :
          messages[i].flagged /\ messages[i].user_id = flows[m].author

\* Each flagged message of the author of m has exactly one "message_flagged"
\* event on the author's account.
OneFlagEventEach(m) ==
    Cardinality(EventsOf(flows[m].author, "message_flagged"))
        = Cardinality(EventCommitted(flows[m].author))

\* on_message is over for a flagged message and storage has not failed.
FlagFlowEnded(m) ==
    /\ IsFlaggedPost(m)
    /\ flows[m].pc \in {"returned", "send raised"}

\* C26: every message of a human author posted in the guild with some
\* content has, once on_message is over for it, exactly one messages row
\* with its message id, flagged or not.
C26_OneRecordPerMessage ==
    \A m \in MessageIds :
        /\ flows[m].pc = "returned"
        /\ ~IsBot(flows[m].author) /\ flows[m].in_guild
        /\ flows[m].content # <<>>
        => Cardinality(MessagesOf(m)) = 1

\* C7: every message the filter flags ends with a ContentRecord with
\* flagged = true persisted, exactly one "message_flagged" event recorded on
\* the author's account, and its removal from the channel attempted; also
\* when the moderator channel is missing or the alert cannot be sent.  Once
\* on_message has returned or has left with the exception of the send,
\* nothing more happens for the message, so "eventually" is "by then".
C7_FlaggedMessageHandled ==
    \A m \in MessageIds :
        FlagFlowEnded(m) =>
            /\ FlaggedRecordPersisted(m)
            /\ OneFlagEventEach(m)
            /\ flows[m].delete # "none"

(***************************************************************************)
(* Moderation: src/cogs/automod.py (ModActionView),                        *)
(* src/cogs/moderation.py (/kick)                                          *)
(***************************************************************************)

\* The button clicks and the /kick invocations of a run.
MaxClicks == 2
MaxCommands == 2

ClickIds == 1..MaxClicks
CommandIds == 1..MaxCommands

\* The position of each account's top role, and its guild permissions.
top_role ==
    [a \in Accounts \cup Bots |->
        IF a = SeniorMod THEN 3
        ELSE IF a \in {12, Helper} THEN 2
        ELSE 1]

guild_permissions ==
    [a \in Accounts \cup Bots |->
        IF a = SeniorMod
        THEN {"manage_messages", "kick_members", "ban_members",
              "moderate_members"}
        ELSE IF a = JuniorMod THEN {"manage_messages", "kick_members"}
        ELSE {}]

Buttons == {"warn", "timeout", "kick", "ban"}

\* ModAction(target_user_id=..., moderator_id=..., action_type=...)
ModAction(target_user_id, moderator_id, action_type) ==
    [target_user_id |-> target_user_id, moderator_id |-> moderator_id,
     action_type |-> action_type]

\* Warning(user_id=..., issued_by=...)
Warning(user_id, issued_by) == [user_id |-> user_id, issued_by |-> issued_by]

\* The event type each button records.
ButtonEvent(button) ==
    CASE button = "warn" -> "warned"
      [] button = "timeout" -> "timed_out"
      [] button = "kick" -> "kicked"
      [] button = "ban" -> "banned"

NoClick ==
    [pc |-> "new", alert |-> 0, user |-> NoUser, button |-> "none",
     target |-> NoUser, executed |-> FALSE, effect |-> "none", at |-> 0]

NoCommand ==
    [pc |-> "new", name |-> "none", user |-> NoUser, member |-> NoUser,
     deleted |-> {}, found |-> FALSE, effect |-> "none"]

\* No moderation has happened and the guild has these members.
ModIdleWith(members) ==
    /\ modActions = <<>>
    /\ warnings = <<>>
    /\ guild = members
    /\ sanctions = {}
    /\ clicks = [c \in ClickIds |-> NoClick]
    /\ rendered = {}
    /\ commands = [k \in CommandIds |-> NoCommand]
    /\ banned = {}

\* The bot starts in a guild that every account of the run is a member of.
ModIdle == ModIdleWith(Accounts \cup Bots)

ListenersIdle ==
    /\ pending = {}
    /\ fkErrors = {}

\* A view constructed with the library's default timeout: it stops
\* listening 180 seconds after it was sent.
expiresAfterDefault(age) == age >= 180

\* super().__init__(timeout=None): whether the view has stopped listening
\* at the given age.
ViewExpired(age) == FALSE

\* A member presses a button of an alert whose message shows the buttons
\* enabled, and the button's callback runs up to its first platform or
\* storage call: _check_permissions, then _get_target_member.  The view of
\* the alert of message m has target_id = the author of m.  Clicks are
\* numbered in the order they arrive.  A click on a view that has stopped
\* listening reaches no callback ("interaction failed").
ButtonClick(c, m, user, button) ==
    /\ clicks[c].pc = "new"
    /\ \A d \in ClickIds : d < c => clicks[d].pc # "new"
    /\ m \in alerts
    /\ m \notin rendered
    /\ user \in guild
    /\ clicks' = [clicks EXCEPT ![c] =
           [pc |-> IF ViewExpired(now)
                   THEN "interaction failed"
                   ELSE IF "manage_messages" \notin guild_permissions[user]
                   THEN "no permission"
                   ELSE IF flows[m].author \notin guild
                   THEN "user not found"
                   ELSE IF button = "warn" THEN "commit" ELSE "effect",
            alert |-> m, user |-> user, button |-> button,
            target |-> flows[m].author, executed |-> FALSE, effect |-> "none",
            at |-> now]]
    /\ UNCHANGED <<modActions, warnings, guild, sanctions, rendered, commands>>
    /\ UNCHANGED <<users, events>>
    /\ UNCHANGED banned
    /\ UNCHANGED outsideMod

\* What member.timeout(), member.kick() and guild.ban() come to.
SanctionOutcomes == {"done", "Forbidden", "NotFound"}

\* A handler that goes on to its transaction after the platform said
\* Forbidden.
carryOnAfterForbidden(outcome, name) ==
    IF outcome = "Forbidden" THEN "commit" ELSE "effect raised"

\* Where a handler ends when the platform refuses the effect: Forbidden is
\* caught, answered with an error message and the handler returns; NotFound
\* is caught by /unban alone ("This user is not banned") and leaves every
\* other handler as an exception.
RefusalPc(outcome, name) ==
    CASE outcome = "Forbidden" -> "bot not permitted"
      [] name = "unban" -> "not banned"
      [] OTHER -> "effect raised"

\* timeout_button, kick_button, ban_button: the direct message (kick and
\* ban; a Forbidden is swallowed) and the platform call.  Forbidden is
\* answered and the callback returns; a kick or timeout of a member who has
\* left raises NotFound, which leaves the callback.
ButtonEffect(c, outcome) ==
    /\ clicks[c].pc = "effect"
    /\ outcome = "NotFound" <=>
          (clicks[c].target \notin guild /\ clicks[c].button # "ban")
    /\ IF clicks[c].button \in {"kick", "ban"}
              /\ NotifyRaises(member_send(clicks[c].target))
       THEN /\ clicks' = [clicks EXCEPT ![c].pc = "notify raised"]
            /\ UNCHANGED <<sanctions, guild, banned>>
       ELSE IF outcome = "done"
       THEN /\ sanctions' = sanctions \cup
                   {[action_type |-> clicks[c].button,
                     target |-> clicks[c].target, by |-> clicks[c].user]}
            /\ guild' = IF clicks[c].button \in {"kick", "ban"}
                        THEN guild \ {clicks[c].target}
                        ELSE guild
            /\ banned' = IF clicks[c].button = "ban"
                         THEN banned \cup {clicks[c].target}
                         ELSE banned
            /\ clicks' = [clicks EXCEPT ![c] =
                   [@ EXCEPT !.pc = "commit", !.executed = TRUE,
                             !.effect = outcome]]
       ELSE /\ clicks' = [clicks EXCEPT ![c] =
                   [@ EXCEPT !.pc = RefusalPc(outcome, clicks[c].button),
                             !.effect = outcome]]
            /\ UNCHANGED <<sanctions, guild, banned>>
    /\ UNCHANGED <<modActions, warnings, rendered, commands, users, events>>
    /\ UNCHANGED outsideMod

\* The transaction of a button: the ModAction row, the UserEvent row and,
\* for a warning, the Warning row.  The rows need the target's users row
\* (foreign key); a failure rolls back and the exception leaves the callback.
ButtonCommit(c, storage) ==
    /\ clicks[c].pc = "commit"
    /\ Len(events) < MaxEvents
    /\ LET k == clicks[c]
       IN  IF storage = "ok" /\ users[k.target].row
           THEN /\ modActions' = Append(modActions,
                       ModAction(k.target, k.user, k.button))
                /\ events' = Append(events,
                       UserEvent(k.target, ButtonEvent(k.button)))
                /\ warnings' = IF k.button = "warn"
                               THEN Append(warnings, Warning(k.target, k.user))
                               ELSE warnings
                /\ clicks' = [clicks EXCEPT ![c] =
                       [@ EXCEPT !.pc = "respond", !.executed = TRUE]]
           ELSE /\ clicks' = [clicks EXCEPT ![c].pc = "raised"]
                /\ UNCHANGED <<modActions, events, warnings>>
    /\ UNCHANGED <<guild, sanctions, rendered, commands, users>>
    /\ UNCHANGED banned
    /\ UNCHANGED outsideMod

\* The end of a button's callback: the direct message of a warning (a
\* Forbidden is swallowed), the response, _disable_buttons() and
\* interaction.message.edit(view=self), after which the alert shows all its
\* buttons disabled.
ButtonRespond(c) ==
    /\ clicks[c].pc = "respond"
    /\ IF clicks[c].button = "warn"
              /\ NotifyRaises(member_send(clicks[c].target))
       THEN /\ clicks' = [clicks EXCEPT ![c].pc = "notify raised"]
            /\ UNCHANGED rendered
       ELSE /\ clicks' = [clicks EXCEPT ![c].pc = "done"]
            /\ rendered' = rendered \cup {clicks[c].alert}
    /\ UNCHANGED <<modActions, warnings, guild, sanctions, commands>>
    /\ UNCHANGED <<users, events>>
    /\ UNCHANGED banned
    /\ UNCHANGED outsideMod

\* /kick up to its first platform call: the has_permissions(kick_members)
\* check, the bot check and the hierarchy check.
kick(k, user, member) ==
    /\ commands[k].pc = "new"
    /\ user \in guild /\ member \in guild
    /\ commands' = [commands EXCEPT ![k] =
           [pc |-> IF "kick_members" \notin guild_permissions[user]
                   THEN "missing permissions"
                   ELSE IF IsBot(member)
                   THEN "cannot kick bots"
                   ELSE IF top_role[member] >= top_role[user]
                   THEN "equal or higher role"
                   ELSE "effect",
            name |-> "kick", user |-> user, member |-> member,
            deleted |-> {}, found |-> FALSE, effect |-> "none"]]
    /\ UNCHANGED <<modActions, warnings, guild, sanctions, clicks, rendered>>
    /\ UNCHANGED <<users, events>>
    /\ UNCHANGED banned
    /\ UNCHANGED outsideMod

\* /kick: the direct message (a Forbidden is swallowed) and member.kick().
KickEffect(k, outcome) ==
    /\ commands[k].pc = "effect"
    /\ commands[k].name = "kick"
    /\ outcome = "NotFound" <=> commands[k].member \notin guild
    /\ IF NotifyRaises(member_send(commands[k].member))
       THEN /\ commands' = [commands EXCEPT ![k].pc = "notify raised"]
            /\ UNCHANGED <<sanctions, guild>>
       ELSE IF outcome = "done"
       THEN /\ sanctions' = sanctions \cup
                   {[action_type |-> "kick", target |-> commands[k].member,
                     by |-> commands[k].user]}
            /\ guild' = guild \ {commands[k].member}
            /\ commands' = [commands EXCEPT ![k] =
                   [@ EXCEPT !.pc = "commit", !.effect = outcome]]
       ELSE /\ commands' = [commands EXCEPT ![k] =
                   [@ EXCEPT !.pc = RefusalPc(outcome, "kick"),
                             !.effect = outcome]]
            /\ UNCHANGED <<sanctions, guild>>
    /\ UNCHANGED <<modActions, warnings, clicks, rendered, users, events>>
    /\ UNCHANGED banned
    /\ UNCHANGED outsideMod

\* /kick, first transaction: _ensure_user(member), the ModAction row and the
\* "kicked" event.
KickCommit(k, storage) ==
    /\ commands[k].pc = "commit"
    /\ commands[k].name = "kick"
    /\ Len(events) < MaxEvents
    /\ LET member == commands[k].member
       IN  IF storage = "ok"
           THEN /\ users' = [users EXCEPT ![member] = _ensure_user(@)]
                /\ modActions' = Append(modActions,
                       ModAction(member, commands[k].user, "kick"))
                /\ events' = Append(events, UserEvent(member, "kicked"))
                /\ commands' = [commands EXCEPT ![k].pc = "audit"]
           ELSE /\ commands' = [commands EXCEPT ![k].pc = "raised"]
                /\ UNCHANGED <<users, modActions, events>>
    /\ UNCHANGED <<warnings, guild, sanctions, clicks, rendered>>
    /\ UNCHANGED banned
    /\ UNCHANGED outsideMod

\* /kick, second transaction and the response: _ensure_user(interaction.user)
\* and the "mod_action_performed" event on the moderator's account.
KickAudit(k, storage) ==
    /\ commands[k].pc = "audit"
    /\ commands[k].name = "kick"
    /\ Len(events) < MaxEvents
    /\ LET user == commands[k].user
       IN  IF storage = "ok"
           THEN /\ users' = [users EXCEPT ![user] = _ensure_user(@)]
                /\ events' = Append(events,
                       UserEvent(user, "mod_action_performed"))
                /\ commands' = [commands EXCEPT ![k].pc = "done"]
           ELSE /\ commands' = [commands EXCEPT ![k].pc = "raised"]
                /\ UNCHANGED <<users, events>>
    /\ UNCHANGED <<modActions, warnings, guild, sanctions, clicks, rendered>>
    /\ UNCHANGED banned
    /\ UNCHANGED outsideMod

\* The first message is a flagged message of a participant and is screened
\* with storage and the moderation channel in order; buttons of its alert
\* are pressed and /kick is invoked.
ModNext ==
    \/ \E a \in Participants : on_message(1, a, TRUE, <<"a", "x">>)
    \/ _log_message(1, "ok")
    \/ FlagEvent(1, "ok")
    \/ FlagAlert(1, "text channel", "sent")
    \/ \E o \in DeleteOutcomes : FlagDelete(1, o)
    \/ \E c \in ClickIds, m \in MessageIds, u \in Moderators, b \in Buttons :
          ButtonClick(c, m, u, b)
    \/ \E c \in ClickIds, o \in SanctionOutcomes : ButtonEffect(c, o)
    \/ \E c \in ClickIds, st \in {"ok", "failed"} : ButtonCommit(c, st)
    \/ \E c \in ClickIds : ButtonRespond(c)
    \/ \E k \in {1}, u \in Moderators, t \in Participants \cup Bots :
          kick(k, u, t)
    \/ \E k \in {1}, o \in SanctionOutcomes : KickEffect(k, o)
    \/ \E k \in {1}, st \in {"ok", "failed"} : KickCommit(k, st)
    \/ \E k \in {1}, st \in {"ok", "failed"} : KickAudit(k, st)

\* An alert, the clicks on its buttons and the time that passes between
\* them.
SurfaceNext ==
    \/ \E a \in Participants : on_message(1, a, TRUE, <<"a", "x">>)
    \/ _log_message(1, "ok")
    \/ FlagEvent(1, "ok")
    \/ FlagAlert(1, "text channel", "sent")
    \/ \E o \in DeleteOutcomes : FlagDelete(1, o)
    \/ \E c \in ClickIds, m \in MessageIds, u \in Moderators, b \in Buttons :
          ButtonClick(c, m, u, b)
    \/ \E c \in ClickIds, o \in SanctionOutcomes : ButtonEffect(c, o)
    \/ \E c \in ClickIds, st \in {"ok", "failed"} : ButtonCommit(c, st)
    \/ \E c \in ClickIds : ButtonRespond(c)
    \/ VerifyTick

(***************************************************************************)
(* Slash commands: src/cogs/moderation.py                                  *)
(* Gateway listeners: src/cogs/logging_cog.py                              *)
(***************************************************************************)

SlashCommands == {"warn", "ban", "timeout", "unban", "purge"}

\* The permission each command's has_permissions decorator asks for.
RequiredPermission(name) ==
    CASE name = "warn" -> "manage_messages"
      [] name = "kick" -> "kick_members"
      [] name = "ban" -> "ban_members"
      [] name = "timeout" -> "moderate_members"
      [] name = "unban" -> "ban_members"
      [] name = "purge" -> "manage_messages"

\* The event type each command records on the target's account.
CommandEvent(name) ==
    CASE name = "warn" -> "warned"
      [] name = "kick" -> "kicked"
      [] name = "ban" -> "banned"
      [] name = "timeout" -> "timed_out"

\* /warn, /ban, /timeout up to the first platform or storage call: the
\* has_permissions check, the bot check and, for ban and timeout, the
\* hierarchy check.
MemberCommand(k, name, user, member) ==
    /\ commands[k].pc = "new"
    /\ name \in {"warn", "ban", "timeout"}
    /\ user \in guild /\ member \in guild
    /\ commands' = [commands EXCEPT ![k] =
           [pc |-> IF RequiredPermission(name) \notin guild_permissions[user]
                   THEN "missing permissions"
                   ELSE IF IsBot(member)
                   THEN "cannot target bots"
                   ELSE IF name # "warn" /\ top_role[member] >= top_role[user]
                   THEN "equal or higher role"
                   ELSE IF name = "warn" THEN "commit" ELSE "effect",
            name |-> name, user |-> user, member |-> member,
            deleted |-> {}, found |-> FALSE, effect |-> "none"]]
    /\ UNCHANGED <<modActions, warnings, guild, sanctions, clicks, rendered,
                   banned, users, events, posted, pending, fkErrors>>
    /\ UNCHANGED outsideEngine

\* /unban up to fetch_user: the has_permissions check and int(user_id).
unban(k, user, uid) ==
    /\ commands[k].pc = "new"
    /\ user \in guild
    /\ commands' = [commands EXCEPT ![k] =
           [pc |-> IF "ban_members" \notin guild_permissions[user]
                   THEN "missing permissions"
                   ELSE "effect",
            name |-> "unban", user |-> user, member |-> uid,
            deleted |-> {}, found |-> FALSE, effect |-> "none"]]
    /\ UNCHANGED <<modActions, warnings, guild, sanctions, clicks, rendered,
                   banned, users, events, posted, pending, fkErrors>>
    /\ UNCHANGED outsideEngine

\* /purge up to channel.purge: the has_permissions check and the deferral.
\* member = NoUser: no member was given.
purge(k, user, member) ==
    /\ commands[k].pc = "new"
    /\ user \in guild
    /\ member # NoUser => member \in guild
    /\ commands' = [commands EXCEPT ![k] =
           [pc |-> IF "manage_messages" \notin guild_permissions[user]
                   THEN "missing permissions"
                   ELSE "effect",
            name |-> "purge", user |-> user, member |-> member,
            deleted |-> {}, found |-> FALSE, effect |-> "none"]]
    /\ UNCHANGED <<modActions, warnings, guild, sanctions, clicks, rendered,
                   banned, users, events, posted, pending, fkErrors>>
    /\ UNCHANGED outsideEngine

\* /ban, /timeout, /unban: the platform call (after the direct message, for
\* a ban).  Forbidden is answered, as is NotFound for /unban ("not banned");
\* a timeout of a member who has left raises NotFound.
CommandEffect(k, outcome) ==
    /\ commands[k].pc = "effect"
    /\ commands[k].name \in {"ban", "timeout", "unban"}
    /\ LET c == commands[k]
       IN  /\ outcome = "NotFound" <=>
                  \/ c.name = "timeout" /\ c.member \notin guild
                  \/ c.name = "unban" /\ c.member \notin banned
           /\ IF c.name = "ban" /\ NotifyRaises(member_send(c.member))
              THEN /\ commands' = [commands EXCEPT ![k].pc = "notify raised"]
                   /\ UNCHANGED <<sanctions, guild, banned>>
              ELSE IF outcome = "done"
              THEN /\ sanctions' = sanctions \cup
                          {[action_type |-> c.name, target |-> c.member,
                            by |-> c.user]}
                   /\ guild' = IF c.name = "ban" THEN guild \ {c.member}
                               ELSE guild
                   /\ banned' = CASE c.name = "ban" -> banned \cup {c.member}
                                  [] c.name = "unban" -> banned \ {c.member}
                                  [] OTHER -> banned
                   /\ commands' = [commands EXCEPT ![k] =
                          [@ EXCEPT !.pc = "commit", !.effect = outcome]]
              ELSE /\ commands' = [commands EXCEPT ![k] =
                          [@ EXCEPT !.pc = RefusalPc(outcome, c.name),
                                    !.effect = outcome]]
                   /\ UNCHANGED <<sanctions, guild, banned>>
    /\ UNCHANGED <<modActions, warnings, clicks, rendered, users, events,
                   posted, pending, fkErrors>>
    /\ UNCHANGED outsideEngine

\* The messages channel.purge may delete: those still posted, of the member
\* if one was given.
Purgeable(member) ==
    {m \in posted : member # NoUser => flows[m].author = member}

\* /purge: channel.purge.  The platform deletes the messages and, for two
\* or more, dispatches on_bulk_message_delete with them.
PurgeDelete(k, deleted, outcome) ==
    /\ commands[k].pc = "effect"
    /\ commands[k].name = "purge"
    /\ deleted \subseteq Purgeable(commands[k].member)
    /\ IF outcome = "done"
       THEN /\ posted' = posted \ deleted
            /\ pending' = IF Cardinality(deleted) >= 2
                          THEN pending \cup
                                   {[listener |-> "on_bulk_message_delete",
                                     authors |-> {flows[m].author :
                                                     m \in deleted} \ Bots]}
                          ELSE pending
            /\ commands' = [commands EXCEPT ![k] =
                   [@ EXCEPT !.pc = "commit", !.deleted = deleted]]
       ELSE /\ commands' = [commands EXCEPT ![k].pc = "purge failed"]
            /\ UNCHANGED <<posted, pending>>
    /\ UNCHANGED <<modActions, warnings, guild, sanctions, clicks, rendered,
                   banned, users, events, fkErrors>>
    /\ UNCHANGED outsideEngine

\* The account a command's ModAction row refers to.
CommandTarget(c) ==
    IF c.name = "purge" /\ c.member = NoUser THEN c.user ELSE c.member

\* The account whose users row a command's first transaction ensures:
\* the member for /warn, /ban and /timeout, the moderator for /purge, none
\* for /unban.
CommandEnsures(c) ==
    CASE c.name \in {"warn", "ban", "timeout"} -> {c.member}
      [] c.name = "purge" -> {c.user}
      [] OTHER -> {}

\* The UserEvent rows a command's first transaction adds.
CommandEvents(c) ==
    CASE c.name \in {"warn", "ban", "timeout"} ->
             <<UserEvent(c.member, CommandEvent(c.name))>>
      [] c.name = "purge" -> <<UserEvent(c.user, "purge")>>
      [] OTHER -> <<>>

\* /warn, /ban, /timeout, /unban, /purge: the transaction that adds the
\* ModAction row.  The row needs the users row of its target (foreign key);
\* a failure rolls back and the exception leaves the command.
CommandCommit(k, storage) ==
    /\ commands[k].pc = "commit"
    /\ commands[k].name \in SlashCommands
    /\ Len(events) < MaxEvents
    /\ LET c == commands[k]
           ensured == [a \in DOMAIN users |->
                          IF a \in CommandEnsures(c) THEN _ensure_user(users[a])
                          ELSE users[a]]
           referenced == ensured[CommandTarget(c)].row
           committed == storage = "ok" /\ referenced
       IN  /\ users' = get_session(users, ensured, committed)
           /\ modActions' = get_session(modActions,
                  session_add(modActions,
                              ModAction(CommandTarget(c), c.user, c.name)),
                  committed)
           /\ events' = get_session(events, events \o CommandEvents(c), committed)
           /\ warnings' = get_session(warnings,
                  IF c.name = "warn"
                  THEN session_add(warnings, Warning(c.member, c.user))
                  ELSE warnings,
                  committed)
           /\ fkErrors' = IF storage = "ok" /\ ~referenced
                          THEN fkErrors \cup
                                   {[handler |-> c.name,
                                     user_id |-> CommandTarget(c)]}
                          ELSE fkErrors
           /\ commands' = [commands EXCEPT ![k].pc =
                  IF ~committed THEN "raised"
                  ELSE IF c.name = "purge" THEN "done"
                  ELSE "audit"]
    /\ UNCHANGED <<guild, sanctions, clicks, rendered, banned, posted, pending>>
    /\ UNCHANGED outsideEngine

\* _ensure_user(session, member) at the head of the first transaction of
\* /warn, /ban and /timeout, up to the answer of its SELECT: whether a users
\* row of the member is committed at that moment.
EnsureSelect(k) ==
    /\ commands[k].pc = "commit"
    /\ commands[k].name \in {"warn", "ban", "timeout"}
    /\ commands' = [commands EXCEPT ![k] =
           [@ EXCEPT !.pc = "flush", !.found = users[commands[k].member].row]]
    /\ UNCHANGED <<modActions, warnings, guild, sanctions, clicks, rendered,
                   banned, users, events, posted, pending, fkErrors>>
    /\ UNCHANGED outsideEngine

\* The rest of that transaction: the INSERT of the users row if the SELECT
\* found none, the ModAction row, the event (and the Warning row), and the
\* commit.  users.discord_id is the primary key: an INSERT for an id that
\* another transaction has committed since the SELECT is refused with
\* IntegrityError, the transaction rolls back and the exception leaves the
\* command.
EnsureFlush(k, storage) ==
    /\ commands[k].pc = "flush"
    /\ Len(events) < MaxEvents
    /\ LET c == commands[k]
           duplicate == ~c.found /\ users[c.member].row
           committed == storage = "ok" /\ ~duplicate
       IN  /\ users' = get_session(users,
                  [users EXCEPT ![c.member] = _ensure_user(@)], committed)
           /\ modActions' = get_session(modActions,
                  Append(modActions, ModAction(c.member, c.user, c.name)),
                  committed)
           /\ events' = get_session(events, events \o CommandEvents(c), committed)
           /\ warnings' = get_session(warnings,
                  IF c.name = "warn"
                  THEN Append(warnings, Warning(c.member, c.user))
                  ELSE warnings,
                  committed)
           /\ commands' = [commands EXCEPT ![k].pc =
                  IF storage # "ok" THEN "raised"
                  ELSE IF duplicate THEN "IntegrityError"
                  ELSE "audit"]
    /\ UNCHANGED <<guild, sanctions, clicks, rendered, banned, posted, pending,
                   fkErrors>>
    /\ UNCHANGED outsideEngine

\* /warn, /ban, /timeout, /unban: the direct message of /warn and /timeout
\* (a Forbidden is swallowed), the second transaction and the response:
\* _ensure_user(interaction.user) and the "mod_action_performed" event on
\* the moderator's account.
CommandAudit(k, storage) ==
    /\ commands[k].pc = "audit"
    /\ commands[k].name \in SlashCommands
    /\ Len(events) < MaxEvents
    /\ LET user == commands[k].user
           notified == ~(commands[k].name \in {"warn", "timeout"}
                            /\ NotifyRaises(member_send(commands[k].member)))
           committed == notified /\ storage = "ok"
       IN  /\ users' = get_session(users,
                  [users EXCEPT ![user] = _ensure_user(@)], committed)
           /\ events' = get_session(events,
                  Append(events, UserEvent(user, "mod_action_performed")),
                  committed)
           /\ commands' = [commands EXCEPT ![k].pc =
                  IF ~notified THEN "notify raised"
                  ELSE IF committed THEN "done" ELSE "raised"]
    /\ UNCHANGED <<modActions, warnings, guild, sanctions, clicks, rendered,
                   banned, posted, pending, fkErrors>>
    /\ UNCHANGED outsideEngine

\* LoggingCog.on_bulk_message_delete, one turn of its loop over the human
\* authors: a transaction of its own with a "bulk_message_delete" event on
\* the author's account, without _ensure_user.  A failure leaves the
\* listener with the exception.
on_bulk_message_delete(task, author, storage) ==
    /\ task \in pending
    /\ task.listener = "on_bulk_message_delete"
    /\ author \in task.authors
    /\ Len(events) < MaxEvents
    /\ LET committed == storage = "ok" /\ users[author].row
           rest == [task EXCEPT !.authors = @ \ {author}]
       IN  /\ events' = get_session(events,
                  Append(events, UserEvent(author, "bulk_message_delete")),
                  committed)
           /\ fkErrors' = IF storage = "ok" /\ ~users[author].row
                          THEN fkErrors \cup
                                   {[handler |-> "on_bulk_message_delete",
                                     user_id |-> author]}
                          ELSE fkErrors
           /\ pending' = IF committed /\ rest.authors # {}
                         THEN (pending \ {task}) \cup {rest}
                         ELSE pending \ {task}
    /\ UNCHANGED <<modActions, warnings, guild, sanctions, clicks, rendered,
                   commands, banned, users, posted>>
    /\ UNCHANGED outsideEngine

\* Two messages are posted, the first one flagged; its alert's buttons are
\* pressed once and one slash command is invoked.
EngineNext ==
    \/ \E a \in Authors : on_message(1, a, TRUE, <<"a", "x">>)
    \/ \E a \in Authors : on_message(2, a, TRUE, <<"-">>)
    \/ _log_message(1, "ok")
    \/ FlagEvent(1, "ok")
    \/ FlagAlert(1, "text channel", "sent")
    \/ \E o \in DeleteOutcomes : FlagDelete(1, o)
    \/ \E u \in Moderators, b \in Buttons : ButtonClick(1, 1, u, b)
    \/ \E o \in SanctionOutcomes : ButtonEffect(1, o)
    \/ \E st \in {"ok", "failed"} : ButtonCommit(1, st)
    \/ ButtonRespond(1)
    \/ \E k \in {1}, u \in Moderators, t \in Participants \cup Bots :
          kick(k, u, t)
    \/ \E k \in {1}, o \in SanctionOutcomes : KickEffect(k, o)
    \/ \E k \in {1}, st \in {"ok", "failed"} : KickCommit(k, st)
    \/ \E k \in {1}, st \in {"ok", "failed"} : KickAudit(k, st)
    \/ \E k \in {1}, n \in {"warn", "ban", "timeout"}, u \in Moderators,
          t \in Participants \cup Bots : MemberCommand(k, n, u, t)
    \/ \E k \in {1}, u \in Moderators, t \in Participants :
          unban(k, u, t)
    \/ \E k \in {1}, u \in Moderators, t \in Participants \cup {NoUser} :
          purge(k, u, t)
    \/ \E k \in {1}, o \in SanctionOutcomes : CommandEffect(k, o)
    \/ \E k \in {1}, d \in SUBSET MessageIds,
          o \in {"done", "Forbidden", "HTTPException"} : PurgeDelete(k, d, o)
    \/ \E k \in {1}, st \in {"ok", "failed"} : CommandCommit(k, st)
    \/ \E k \in {1}, st \in {"ok", "failed"} : CommandAudit(k, st)
    \/ \E task \in pending, a \in Participants, st \in {"ok", "failed"} :
          on_bulk_message_delete(task, a, st)

\* LoggingCog.on_member_join and LoggingCog.on_member_remove for a human
\* member: _ensure_user and the "join" or "leave" event in one transaction.
LoggingCog_member_event(member, event_type, storage) ==
    /\ ~IsBot(member)
    /\ Len(events) < MaxEvents
    /\ users' = get_session(users,
           [users EXCEPT ![member] = _ensure_user(@)], storage = "ok")
    /\ events' = get_session(events,
           Append(events, UserEvent(member, event_type)), storage = "ok")
    /\ UNCHANGED <<modVars, posted, fkErrors>>
    /\ UNCHANGED outsideEngine

LoggingCog_on_member_join(member, storage) ==
    LoggingCog_member_event(member, "join", storage) /\ UNCHANGED pending

LoggingCog_on_member_remove(member, storage) ==
    LoggingCog_member_event(member, "leave", storage) /\ UNCHANGED pending

\* VerificationCog.on_member_remove for a human member: the "leave" event in
\* a transaction of its own, without any users row being ensured.
VerificationCog_leave_event(member, storage) ==
    /\ ~IsBot(member)
    /\ Len(events) < MaxEvents
    /\ events' = get_session(events,
           Append(events, UserEvent(member, "leave")),
           storage = "ok" /\ users[member].row)
    /\ fkErrors' = IF storage = "ok" /\ ~users[member].row
                   THEN fkErrors \cup
                            {[handler |-> "on_member_remove",
                              user_id |-> member]}
                   ELSE fkErrors
    /\ UNCHANGED <<modVars, posted, users>>
    /\ UNCHANGED outsideEngine

VerificationCog_on_member_remove(member, storage) ==
    VerificationCog_leave_event(member, storage) /\ UNCHANGED pending

\* The cogs with a listener for on_member_join and on_member_remove.
MemberListeners == {"VerificationCog", "LoggingCog"}

\* The event type the listeners of a gateway event write.
ListenerEvent(listener) ==
    IF listener = "on_member_join" THEN "join" ELSE "leave"

\* A gateway event of a member as the bot receives it: the listeners still
\* to run for it, the number of events of its type the member had before it,
\* and whether a listener's transaction failed.
GatewayEvent(listener, member) ==
    [listener |-> listener, member |-> member, todo |-> MemberListeners,
     before |-> Cardinality(EventsOf(member, ListenerEvent(listener))),
     failed |-> FALSE]

\* The listeners of the member's last gateway event have all run.
Settled(member) == \A task \in pending : task.member = member => task.todo = {}

\* GUILD_MEMBER_ADD: a human joins the guild and the bot dispatches
\* on_member_join to every cog that listens.
MemberJoins(member) ==
    /\ member \notin guild
    /\ Settled(member)
    /\ guild' = guild \cup {member}
    /\ pending' = {task \in pending : task.member # member}
                      \cup {GatewayEvent("on_member_join", member)}
    /\ UNCHANGED <<modActions, warnings, sanctions, clicks, rendered, commands,
                   banned, users, events, posted, fkErrors>>
    /\ UNCHANGED outsideEngine

\* GUILD_MEMBER_REMOVE: a human leaves the guild and the bot dispatches
\* on_member_remove to every cog that listens.
MemberLeaves(member) ==
    /\ member \in guild
    /\ Settled(member)
    /\ guild' = guild \ {member}
    /\ pending' = {task \in pending : task.member # member}
                      \cup {GatewayEvent("on_member_remove", member)}
    /\ UNCHANGED <<modActions, warnings, sanctions, clicks, rendered, commands,
                   banned, users, events, posted, fkErrors>>
    /\ UNCHANGED outsideEngine

\* One cog's listener has run for a gateway event.
Ran(task, cog, failed) ==
    (pending \ {task}) \cup
        {[task EXCEPT !.todo = @ \ {cog}, !.failed = @ \/ failed]}

\* The listeners as the dispatcher runs them, one per cog and event.
RunVerificationJoin(task) ==
    /\ task \in pending
    /\ task.listener = "on_member_join" /\ "VerificationCog" \in task.todo
    /\ VerificationCog_on_member_join(task.member)
    /\ pending' = Ran(task, "VerificationCog", FALSE)

RunVerificationLeave(task, storage) ==
    /\ task \in pending
    /\ task.listener = "on_member_remove" /\ "VerificationCog" \in task.todo
    /\ VerificationCog_leave_event(task.member, storage)
    /\ pending' = Ran(task, "VerificationCog",
                      storage # "ok" \/ ~users[task.member].row)

RunLoggingListener(task, storage) ==
    /\ task \in pending
    /\ "LoggingCog" \in task.todo
    /\ LoggingCog_member_event(task.member, ListenerEvent(task.listener),
                               storage)
    /\ pending' = Ran(task, "LoggingCog", storage # "ok")

\* Members leave and join, and the listeners run for each event.
GatewayNext ==
    \/ \E p \in Participants : MemberJoins(p)
    \/ \E p \in Participants : MemberLeaves(p)
    \/ \E task \in pending : RunVerificationJoin(task)
    \/ \E task \in pending, st \in {"ok", "failed"} :
          RunVerificationLeave(task, st)
    \/ \E task \in pending, st \in {"ok", "failed"} :
          RunLoggingListener(task, st)

(***************************************************************************)
(* The two on_member_join listeners, await by await:                       *)
(* src/cogs/verification.py 34-100, src/cogs/logging_cog.py 40-53, 428-445 *)
(*                                                                         *)
(* discord.py runs each cog's listener of an event as a task of its own;   *)
(* a task runs up to its next await and the other may run in between.      *)
(* Both listeners open a session, SELECT the member's users row and add    *)
(* one if the SELECT found none.                                           *)
(***************************************************************************)

outsideJoin == <<filterVars, stepVars, now, decoded, verifyVars, flagVars,
                 modActions, warnings, sanctions, clicks, rendered, commands,
                 banned, fkErrors, callVars>>

\* The task of one cog's on_member_join for a member, and where it stands:
\* "select" (before the answer of its SELECT), "write" (before its INSERTs
\* and the commit), "deliver" (VerificationCog, past its session), "done",
\* "IntegrityError" (the exception left the listener).
JoinTask(cog, member) ==
    [listener |-> "on_member_join", member |-> member, cog |-> cog,
     pc |-> "select", found |-> FALSE]

\* GUILD_MEMBER_ADD for a human who is not in the guild: a task per cog.
JoinDispatch(member) ==
    /\ member \notin guild
    /\ ~IsBot(member)
    /\ guild' = guild \cup {member}
    /\ pending' = pending \cup {JoinTask(cog, member) : cog \in MemberListeners}
    /\ UNCHANGED <<users, events, issued>>
    /\ UNCHANGED outsideJoin

Moved(task, pc, found) ==
    (pending \ {task}) \cup {[task EXCEPT !.pc = pc, !.found = found]}

\* `await session.execute(select(User)...)`: whether a users row of the
\* member is committed at that moment.
JoinSelect(task) ==
    /\ task \in pending
    /\ task.pc = "select"
    /\ pending' = Moved(task, "write", users[task.member].row)
    /\ UNCHANGED <<users, events, issued, guild>>
    /\ UNCHANGED outsideJoin

\* The rest of the session: the INSERT of the users row if the SELECT found
\* none, the "join" event and the commit.  users.discord_id is the primary
\* key: the INSERT of an id that the other listener has committed since the
\* SELECT is refused with IntegrityError, the session rolls back and the
\* exception ends the listener.
JoinWrite(task) ==
    /\ task \in pending
    /\ task.pc = "write"
    /\ Len(events) < MaxEvents
    /\ LET duplicate == ~task.found /\ users[task.member].row
           committed == ~duplicate
       IN  /\ users' = get_session(users,
                  [users EXCEPT ![task.member] = _ensure_user(@)], committed)
           /\ events' = get_session(events,
                  Append(events, UserEvent(task.member, "join")), committed)
           /\ pending' = Moved(task,
                  IF duplicate THEN "IntegrityError"
                  ELSE IF task.cog = "VerificationCog" THEN "deliver"
                  ELSE "done",
                  task.found)
    /\ UNCHANGED <<issued, guild>>
    /\ UNCHANGED outsideJoin

\* VerificationCog.on_member_join past its session: the token and its
\* delivery.
JoinDeliver(task, system_channel) ==
    /\ task \in pending
    /\ task.pc = "deliver"
    /\ issued' = issued \cup
           {Delivery("on_member_join", task.member, now, system_channel)}
    /\ pending' = Moved(task, "done", task.found)
    /\ UNCHANGED <<users, events, guild>>
    /\ UNCHANGED outsideJoin

\* A listener at hand runs to its next await.
JoinStep ==
    \/ \E task \in pending : JoinSelect(task)
    \/ \E task \in pending : JoinWrite(task)
    \/ \E task \in pending, ch \in SystemChannels : JoinDeliver(task, ch)

JoinNext ==
    \/ \E p \in Participants : JoinDispatch(p)
    \/ JoinStep

\* C37: every join of a human leads to a verification token being issued
\* for the member and a delivery being attempted, however the listeners of
\* the join interleave.
C37_JoinLeadsToToken ==
    \A p \in Participants :
        (p \in guild) ~> (\E r \in issued : r.user_id = p /\ r.dm # "none")

\* The member whose life in the guild is followed.
Newcomer == CHOOSE p \in Participants : \A q \in Participants : p <= q

\* A member's life in the guild: joins and re-joins, leaves, reissued
\* tokens, one captcha submit, one flagged message and one /warn.
LifeNext ==
    \/ on_member_join(Newcomer)
    \/ reverify(Newcomer)
    \/ \E t \in PostedTokens : SubmitDecode(1, t)
    \/ \E c \in CaptchaResponses : SubmitForm(1, c)
    \/ \E o \in {"success", "failure", "fault"} : SubmitSiteverify(1, o)
    \/ \E st \in {"ok", "failed"} : SubmitCommit(1, st)
    \/ \E o \in GrantOutcomes : SubmitGrant(1, o)
    \/ \E st \in {"ok", "failed"} : LoggingCog_on_member_join(Newcomer, st)
    \/ \E st \in {"ok", "failed"} : LoggingCog_on_member_remove(Newcomer, st)
    \/ \E st \in {"ok", "failed"} :
          VerificationCog_on_member_remove(Newcomer, st)
    \/ on_message(1, Newcomer, TRUE, <<"a", "x">>)
    \/ \E st \in {"ok", "failed"} : _log_message(1, st)
    \/ MemberCommand(1, "warn", SeniorMod, Newcomer)
    \/ \E st \in {"ok", "failed"} : CommandCommit(1, st)
    \/ \E st \in {"ok", "failed"} : CommandAudit(1, st)

\* Two commands against members run side by side, their first transactions
\* taken statement by statement; a member may have joined before.
RaceNext ==
    \/ \E k \in CommandIds, n \in {"warn", "timeout"}, u \in Moderators,
          t \in Participants : MemberCommand(k, n, u, t)
    \/ \E k \in CommandIds, o \in SanctionOutcomes : CommandEffect(k, o)
    \/ \E k \in CommandIds : EnsureSelect(k)
    \/ \E k \in CommandIds, st \in {"ok", "failed"} : EnsureFlush(k, st)
    \/ \E k \in CommandIds, st \in {"ok", "failed"} : CommandAudit(k, st)
    \/ \E p \in Participants : LoggingCog_on_member_join(p, "ok")

(***************************************************************************)
(* The handlers' awaits in program order: src/cogs/moderation.py,          *)
(* src/cogs/automod.py, src/cogs/verification.py, src/captcha_server.py    *)
(*                                                                         *)
(* A handler is the sequence of the awaits of its longest path.  "enter"   *)
(* is `async with get_session() as session:` (a session is opened),        *)
(* "sql" an await on the session (execute, flush, _ensure_user), "exit"    *)
(* the end of the block (commit; rollback when a statement raised).  The   *)
(* other statements are calls to the outside: "respond" (the interaction's *)
(* response, follow-up or deferral), "dm" (member.send), "platform"        *)
(* (kick, ban, unban, timeout, purge, fetch, channel send, message edit    *)
(* and delete), "role" (member.add_roles), "verifier" (siteverify).        *)
(***************************************************************************)

\* The handlers in flight at a time.
MaxHandlers == 2

HandlerIds == 1..MaxHandlers

Handlers ==
    {"warn", "kick", "ban", "timeout", "unban", "purge", "warn_button",
     "timeout_button", "kick_button", "ban_button", "_flag_message",
     "on_member_join", "_handle_captcha_submit"}

ExternalCalls == {"respond", "dm", "platform", "role", "verifier"}

\* A /warn that sends the direct message before its first session is closed.
programAwaitInSession(handler) ==
    <<"enter", "sql", "dm", "exit", "enter", "sql", "exit", "respond">>

\* The awaits of the slash commands, in the order of their source.
ModerationProgram(handler) ==
    CASE handler = "warn" ->
             <<"enter", "sql", "exit", "dm", "enter", "sql", "exit", "respond">>
      [] handler \in {"kick", "ban"} ->
             <<"dm", "platform", "enter", "sql", "exit", "enter", "sql",
               "exit", "respond">>
      [] handler = "timeout" ->
             <<"platform", "enter", "sql", "exit", "dm", "enter", "sql",
               "exit", "respond">>
      [] handler = "unban" ->
             <<"platform", "platform", "enter", "exit", "enter", "sql",
               "exit", "respond">>
      [] handler = "purge" ->
             <<"respond", "platform", "enter", "sql", "exit", "respond">>

\* The awaits of the buttons' callbacks (_get_target_member's fetch first)
\* and of _flag_message (with _log_message at its head).
AutomodProgram(handler) ==
    CASE handler = "warn_button" ->
             <<"platform", "enter", "exit", "dm", "respond", "platform">>
      [] handler = "timeout_button" ->
             <<"platform", "platform", "enter", "exit", "respond", "platform">>
      [] handler \in {"kick_button", "ban_button"} ->
             <<"platform", "dm", "platform", "enter", "exit", "respond",
               "platform">>
      [] handler = "_flag_message" ->
             <<"enter", "sql", "sql", "exit", "enter", "exit", "platform",
               "platform">>

\* VerificationCog.on_member_join: the upsert, the direct message, the
\* system channel.
VerificationProgram(handler) == <<"enter", "sql", "exit", "dm", "platform">>

\* _handle_captcha_submit from _verify_hcaptcha on, _complete_verification
\* included.
CaptchaProgram(handler) ==
    <<"verifier", "enter", "sql", "exit", "platform", "role", "dm">>

Program(handler) ==
    CASE handler \in {"warn", "kick", "ban", "timeout", "unban", "purge"} ->
             ModerationProgram(handler)
      [] handler = "on_member_join" -> VerificationProgram(handler)
      [] handler = "_handle_captcha_submit" -> CaptchaProgram(handler)
      [] OTHER -> AutomodProgram(handler)

\* No handler in this slot.
NotRunning == [handler |-> "none", at |-> 0, open |-> FALSE, inside |-> FALSE]

CallsIdle == running = [h \in HandlerIds |-> NotRunning]

\* A handler is called.
Invoke(h, handler) ==
    /\ running[h] = NotRunning
    /\ running' = [running EXCEPT ![h] =
           [handler |-> handler, at |-> 1, open |-> FALSE, inside |-> FALSE]]
    /\ UNCHANGED outsideCalls

\* The handler runs its next await.  A session statement that raises ends
\* the block with a rollback and the handler with the exception; a call to
\* the outside that raises is swallowed or ends the handler.  `inside`
\* records a call to the outside made while the handler's session was open.
Await(h, outcome) ==
    LET r == running[h]
        program == Program(r.handler)
        statement == program[r.at]
        last == Len(program) + 1
    IN  /\ r # NotRunning
        /\ r.at <= Len(program)
        /\ running' = [running EXCEPT ![h] =
               CASE statement = "enter" ->
                        [r EXCEPT !.at = r.at + 1, !.open = TRUE]
                 [] statement = "sql" ->
                        IF outcome = "raised"
                        THEN [r EXCEPT !.at = last, !.open = FALSE]
                        ELSE [r EXCEPT !.at = r.at + 1]
                 [] statement = "exit" ->
                        [r EXCEPT !.at = IF outcome = "raised" THEN last
                                         ELSE r.at + 1,
                                  !.open = FALSE]
                 [] OTHER ->
                        [r EXCEPT !.at = IF outcome = "ended" THEN last
                                         ELSE r.at + 1,
                                  !.inside = r.inside \/ r.open]]
        /\ UNCHANGED outsideCalls

\* The handler returns.
Return(h) ==
    /\ running[h] # NotRunning
    /\ running[h].at > Len(Program(running[h].handler))
    /\ running' = [running EXCEPT ![h] = NotRunning]
    /\ UNCHANGED outsideCalls

CallsNext ==
    \/ \E h \in HandlerIds, handler \in Handlers : Invoke(h, handler)
    \/ \E h \in HandlerIds, o \in {"ok", "raised", "ended"} : Await(h, o)
    \/ \E h \in HandlerIds : Return(h)

\* The statement a running handler stands at; "none" past its last.
StandsAt(h) ==
    IF running[h] # NotRunning
           /\ running[h].at <= Len(Program(running[h].handler))
    THEN Program(running[h].handler)[running[h].at]
    ELSE "none"

\* C34: no call to the outside (platform effect, direct message, role
\* assignment, challenge-verifier request, response) is made while a
\* session opened by get_session is open: a handler that holds an open
\* session stands at a statement of the session or at its end, and no
\* handler has made such a call with its session open.
C34_NoExternalCallInTransaction ==
    \A h \in HandlerIds :
        /\ ~running[h].inside
        /\ running[h].open => StandsAt(h) \in {"sql", "exit"}
        /\ StandsAt(h) \in ExternalCalls => ~running[h].open

\* /warn stands between its two sessions, its direct message sent after the
\* first was committed, while another handler holds a session open.
C34_Witness ==
    \E h, g \in HandlerIds :
        /\ running[h].handler = "warn" /\ running[h].at = 5
        /\ ~running[h].open
        /\ running[g].open /\ running[g].handler = "_handle_captcha_submit"

(***************************************************************************)
(* Claims about moderation                                                 *)
(***************************************************************************)

\* The AuditEvent that belongs to a ModAction row: the event on the target's
\* account for warn, timeout, kick and ban, the event on the moderator's
\* account for unban and purge.
CorrespondingEvent(action) ==
    CASE action.action_type \in {"warn", "timeout", "kick", "ban"} ->
             UserEvent(action.target_user_id, ButtonEvent(action.action_type))
      [] action.action_type = "unban" ->
             UserEvent(action.moderator_id, "mod_action_performed")
      [] action.action_type = "purge" ->
             UserEvent(action.moderator_id, "purge")

\* The ModAction rows whose AuditEvent is the given one.
ActionsWithEvent(event) ==
    {i \in 1..Len(modActions) : CorrespondingEvent(modActions[i]) = event}

\* The rows of user_events equal to the given one.
EventRows(event) == {i \in 1..Len(events) : events[i] = event}

\* C13: for every action kind the ModAction row and its AuditEvent are
\* written in one transaction, so that in every state both are visible or
\* neither is: no ModAction row is ever visible without its event.
C13_ActionAndEventTogether ==
    \A i \in 1..Len(modActions) :
        LET event == CorrespondingEvent(modActions[i])
        IN  Cardinality(ActionsWithEvent(event)) <= Cardinality(EventRows(event))

\* C14: every write of a messages, mod_actions, warnings or user_events row
\* is preceded in the same handler by ensuring the users row it references,
\* so that no handler ever attempts such a write for an id without a users
\* row: the database never has to refuse an insert for a missing users row.
C14_RowEnsuredBeforeWrite == fkErrors = {}

\* C16: no timeout, kick or ban is carried out for a moderator who lacks the
\* permission of that action (moderate_members, kick_members, ban_members),
\* on the slash commands and on the buttons of an alert alike.
C16_ActionNeedsItsPermission ==
    \A s \in sanctions :
        s.action_type \in {"timeout", "kick", "ban"} =>
            RequiredPermission(s.action_type) \in guild_permissions[s.by]

\* C17: no warn, timeout, kick or ban is carried out or recorded against a
\* bot: the slash commands turn a bot target down before any effect or
\* write, and a ModActionView is bound only to the author of a flagged
\* message, who is never a bot.
C17_BotsNeverSanctioned ==
    /\ \A s \in sanctions : s.target \notin Bots
    /\ \A i \in 1..Len(modActions) :
          modActions[i].action_type \in {"warn", "timeout", "kick", "ban"} =>
              modActions[i].target_user_id \notin Bots
    /\ \A i \in 1..Len(warnings) : warnings[i].user_id \notin Bots
    /\ \A m \in alerts : flows[m].author \notin Bots
    /\ \A k \in CommandIds :
          commands[k].name \in {"warn", "timeout", "kick", "ban"}
              /\ commands[k].member \in Bots =>
          commands[k].pc \in {"missing permissions", "cannot target bots",
                              "cannot kick bots"}

\* A bot posted a blacklisted word and a command aimed at a bot was turned
\* down.
C17_Witness ==
    /\ flows[1].author \in Bots
    /\ flows[1].content = <<"a", "x">>
    /\ flows[1].pc = "returned"
    /\ \E k \in CommandIds :
          /\ commands[k].pc \in {"cannot target bots", "cannot kick bots"}
          /\ commands[k].member \in Bots

\* The rows of user_events with one of the given event types.
EventsOfType(types) == {i \in 1..Len(events) : events[i].event_type \in types}

\* The rows of mod_actions with the given action type.
ActionsOfType(type) ==
    {i \in 1..Len(modActions) : modActions[i].action_type = type}

\* C20: a purge that went through, however many messages of however many
\* authors it deleted, leaves exactly one ModAction row and exactly one
\* AuditEvent for the purge, never one record per message or per author.
C20_OneRecordPerPurge ==
    \A k \in CommandIds :
        commands[k].name = "purge" /\ commands[k].pc = "done" /\ pending = {} =>
            /\ Cardinality(ActionsOfType("purge")) = 1
            /\ Cardinality(EventsOfType({"purge", "bulk_message_delete"})) = 1

\* C15: the verified flag is monotonic: once a participant's is_verified is
\* true, no join, leave, re-join, reissued token, submit, message or
\* moderation action sets it back to false.
C15_VerifiedIsMonotonic ==
    [][\A p \in DOMAIN users :
          users[p].is_verified => users'[p].is_verified]_vars

\* A verified member left, joined again, posted a flagged message and was
\* warned, in that order after the "verified" event.
C15_Witness ==
    \E p \in Participants :
        /\ users[p].is_verified
        /\ \E v \in EventsOf(p, "verified") :
              /\ \E i \in EventsOf(p, "leave") : v < i
              /\ \E i \in EventsOf(p, "join") : v < i
              /\ \E i \in EventsOf(p, "warned") : v < i
        /\ flows[1].author = p /\ flows[1].pc = "event"

\* The platform effect, the ModAction row and the event on the target's
\* account of an action are all there.
ActionCarriedOut(action_type, target, by) ==
    /\ action_type # "warn" =>
          [action_type |-> action_type, target |-> target, by |-> by]
              \in sanctions
    /\ \E i \in 1..Len(modActions) :
          modActions[i] = ModAction(target, by, action_type)
    /\ EventsOf(target, ButtonEvent(action_type)) # {}

\* C21: a direct message the target refuses never fails the action: for
\* warn, kick, ban and timeout, as a command and as a button, the handler is
\* not left because of the refusal, and where it ran to its end the platform
\* effect was performed and the ModAction and audit rows were written.
C21_RefusedNotificationSwallowed ==
    /\ \A k \in CommandIds : commands[k].pc # "notify raised"
    /\ \A c \in ClickIds : clicks[c].pc # "notify raised"
    /\ \A k \in CommandIds :
          /\ commands[k].pc = "done"
          /\ commands[k].name \in {"warn", "kick", "ban", "timeout"}
          /\ commands[k].member \in DmsBlocked
          => ActionCarriedOut(commands[k].name, commands[k].member,
                              commands[k].user)
    /\ \A c \in ClickIds :
          clicks[c].pc = "done" /\ clicks[c].target \in DmsBlocked
          => ActionCarriedOut(clicks[c].button, clicks[c].target,
                              clicks[c].user)

\* A command and a button both ran to their end against a member who blocks
\* direct messages, each with a notification that was refused.
C21_Witness ==
    /\ \E k \in CommandIds :
          /\ commands[k].pc = "done"
          /\ commands[k].name \in {"warn", "kick", "ban", "timeout"}
          /\ member_send(commands[k].member) = "Forbidden"
    /\ \E c \in ClickIds :
          /\ clicks[c].pc = "done"
          /\ clicks[c].button \in {"warn", "kick", "ban"}
          /\ member_send(clicks[c].target) = "Forbidden"

\* The commands whose platform effect went through and whose first
\* transaction has ended without a storage failure, for a member, moderator
\* and action type.
CommandsPastCommit(action) ==
    {k \in CommandIds :
        /\ commands[k].name = action.action_type
        /\ commands[k].member = action.target_user_id
        /\ commands[k].user = action.moderator_id
        /\ commands[k].pc \in {"audit", "done", "IntegrityError"}}

\* C24: when two moderation actions against the same target run side by
\* side and both platform effects succeed, both ModAction rows are
\* committed: none is lost or refused because of the other, also when the
\* target has no users row yet and both run _ensure_user.
C24_ConcurrentActionsBothCommitted ==
    \A k \in CommandIds :
        commands[k].pc \in {"audit", "done", "IntegrityError"} =>
            LET action == ModAction(commands[k].member, commands[k].user,
                                    commands[k].name)
            IN  Cardinality(CommandsPastCommit(action)) <=
                    Cardinality({i \in 1..Len(modActions) :
                                    modActions[i] = action})

\* C25: each state transition produces one AuditEvent: once all listeners
\* of a join (a leave) of a human member have run, with no transaction
\* failed, the member has exactly one "join" ("leave") event more than before.
C25_OneEventPerTransition ==
    \A task \in pending :
        task.todo = {} /\ ~task.failed =>
            Cardinality(EventsOf(task.member, ListenerEvent(task.listener)))
                = task.before + 1

\* The rows of a table are still there, unchanged and in place.
IsPrefix(before, after) ==
    /\ Len(before) <= Len(after)
    /\ \A i \in 1..Len(before) : after[i] = before[i]

\* C27: mod_actions, warnings and user_events are append-only: every step
\* leaves the committed rows of each as they are and at most adds rows; no
\* users row is ever deleted.
C27_AppendOnly ==
    [][/\ IsPrefix(modActions, modActions')
       /\ IsPrefix(warnings, warnings')
       /\ IsPrefix(events, events')
       /\ \A p \in DOMAIN users : users[p].row => users'[p].row]_vars

\* Rows of all three tables are committed, a second action was recorded
\* after the first, and a command's transaction has been rolled back.
C27_Witness ==
    /\ Len(modActions) >= 2
    /\ Len(warnings) >= 1
    /\ Len(events) >= 3
    /\ \E k \in CommandIds : commands[k].pc = "raised"

\* The two audit facets of an action: the event on the target's account
\* that describes it and the "mod_action_performed" event on the account of
\* the moderator who carried it out.
TwoAuditFacets(action_type, target, by) ==
    /\ EventsOf(target, ButtonEvent(action_type)) # {}
    /\ EventsOf(by, "mod_action_performed") # {}

\* C28: every warn, timeout, kick or ban that was carried out to the end
\* leaves both audit facets, through a slash command and through the buttons
\* of an alert alike.
C28_TwoFacetsPerAction ==
    /\ \A k \in CommandIds :
          /\ commands[k].pc = "done"
          /\ commands[k].name \in {"warn", "timeout", "kick", "ban"}
          => TwoAuditFacets(commands[k].name, commands[k].member,
                            commands[k].user)
    /\ \A c \in ClickIds :
          clicks[c].pc = "done"
          => TwoAuditFacets(clicks[c].button, clicks[c].target, clicks[c].user)

\* C29: the preconditions of kick, ban and timeout are evaluated in the
\* order bot target, rank, capability, and the first one that fails gives the
\* rejection: a bot target is turned down as a bot target whatever else is
\* wrong, and an equal or higher rank as such whatever the moderator's
\* permissions.
C29_ChecksInOrder ==
    \A k \in CommandIds :
        commands[k].name \in {"kick", "ban", "timeout"} =>
            /\ IsBot(commands[k].member) =>
                  commands[k].pc \in {"cannot target bots", "cannot kick bots"}
            /\ /\ ~IsBot(commands[k].member)
               /\ top_role[commands[k].member] >= top_role[commands[k].user]
               => commands[k].pc = "equal or higher role"

\* Where a command or a click stands after the platform refused its effect.
Refused == {"bot not permitted", "not banned", "effect raised"}

\* C30: when the platform refuses the effect of a kick, ban, timeout or
\* unban (Forbidden or NotFound), the request ends as failed and writes no
\* ModAction, Warning or UserEvent row: the step of the refusal changes no
\* table and nothing on the platform, the handler does nothing after it, and
\* for a button the alert is not re-rendered with its buttons disabled.
C30_RefusedEffectWritesNothing ==
    /\ [](/\ \A k \in CommandIds :
                commands[k].effect \in {"Forbidden", "NotFound"}
                    => commands[k].pc \in Refused
          /\ \A c \in ClickIds :
                clicks[c].effect \in {"Forbidden", "NotFound"}
                    => clicks[c].pc \in Refused /\ ~clicks[c].executed)
    /\ [][/\ (\E k \in CommandIds : commands'[k].pc \in Refused
                                       /\ commands[k].pc \notin Refused)
              => UNCHANGED <<modActions, warnings, events, users, sanctions,
                             guild, banned>>
          /\ (\E c \in ClickIds : clicks'[c].pc \in Refused
                                     /\ clicks[c].pc \notin Refused)
              => UNCHANGED <<modActions, warnings, events, users, sanctions,
                             guild, banned, rendered>>
          /\ \A k \in CommandIds :
                commands[k].pc \in Refused => commands'[k] = commands[k]
          /\ \A c \in ClickIds :
                clicks[c].pc \in Refused => clicks'[c] = clicks[c]]_vars

\* The platform refused a command's effect and a button's effect, the
\* button's after the direct message to the target had been sent, and the
\* alert still shows its buttons enabled.
C30_Witness ==
    /\ \E k \in CommandIds :
          commands[k].effect \in {"Forbidden", "NotFound"}
    /\ \E c \in ClickIds :
          /\ clicks[c].effect = "Forbidden"
          /\ clicks[c].button \in {"kick", "ban"}
          /\ member_send(clicks[c].target) = "sent"
          /\ clicks[c].alert \notin rendered

\* Where a click stands that was turned down: the clicker lacks the
\* permission, the target is no longer in the guild, the platform forbids
\* the effect.
RejectedClick == {"no permission", "user not found", "bot not permitted"}

\* The rows of user_events that a button's callback writes.
ButtonEventRows ==
    {i \in 1..Len(events) :
        events[i].event_type \in {ButtonEvent(b) : b \in Buttons}}

\* The clicks whose transaction has committed.
WentThrough == {c \in ClickIds : clicks[c].pc \in {"respond", "done"}}

\* C35: a confirmation surface never expires and is disabled only by a
\* successful click: no click, however late, finds the view gone; an alert
\* shows its buttons disabled only after a click on it went through; the
\* ModAction, Warning and event rows of the buttons are those of the clicks
\* that went through; and the step that turns a click down disables nothing
\* and writes nothing.
C35_SurfaceStaysUntilUsed ==
    /\ [](/\ \A c \in ClickIds : clicks[c].pc # "interaction failed"
          /\ \A m \in rendered :
                \E c \in ClickIds :
                    /\ clicks[c].alert = m
                    /\ clicks[c].executed
                    /\ clicks[c].pc = "done"
          /\ \A c \in ClickIds :
                clicks[c].pc \in RejectedClick => ~clicks[c].executed
          /\ Len(modActions) = Cardinality(WentThrough)
          /\ Cardinality(ButtonEventRows) = Cardinality(WentThrough)
          /\ Len(warnings)
                = Cardinality({c \in WentThrough : clicks[c].button = "warn"}))
    /\ [][\A c \in ClickIds :
             /\ clicks'[c].pc \in RejectedClick
                   /\ clicks[c].pc \notin RejectedClick
                => UNCHANGED <<rendered, modActions, warnings, events, users>>
             /\ clicks[c].pc \in RejectedClick => clicks'[c] = clicks[c]]_vars

\* A click was turned down, and a later click on the same alert, long after
\* the alert was sent, went through and disabled the buttons.
C35_Witness ==
    \E c, d \in ClickIds :
        /\ clicks[c].pc \in RejectedClick
        /\ clicks[d].alert = clicks[c].alert
        /\ clicks[d].at >= clicks[c].at + TOKEN_MAX_AGE
        /\ clicks[d].pc = "done" /\ clicks[d].executed
        /\ clicks[d].alert \in rendered

\* The clicks on the alert of message m whose action has been carried out.
ExecutedClicks(m) ==
    {c \in ClickIds : clicks[c].alert = m /\ clicks[c].executed}

\* C1: for one ModActionView at most one moderation action is ever carried
\* out, however many clicks arrive and however they interleave; once a click
\* has gone through, the alert shows all its buttons disabled.
C1_OneActionPerView ==
    \A m \in MessageIds :
        /\ Cardinality(ExecutedClicks(m)) <= 1
        /\ (\E c \in ClickIds : clicks[c].alert = m /\ clicks[c].pc = "done")
              => m \in rendered

\* C2: a kick by an actor whose rank is not above the target's is always
\* rejected, with no effect on the platform and no row in storage, on /kick
\* and on the Kick button alike.
C2_KickNeedsHigherRank ==
    /\ \A s \in sanctions :
          s.action_type = "kick" => top_role[s.by] > top_role[s.target]
    /\ \A i \in 1..Len(modActions) :
          modActions[i].action_type = "kick" =>
              top_role[modActions[i].moderator_id]
                  > top_role[modActions[i].target_user_id]

(***************************************************************************)
(* Specifications                                                          *)
(***************************************************************************)

\* The blacklist filter, from its construction on.
InitFilter == FilterInit /\ StepsIdle /\ CallsIdle /\ TokenIdle /\ DbIdle /\ VerifyIdle /\ FlagIdle
    /\ ModIdle /\ ListenersIdle
SpecFilter == InitFilter /\ [][FilterNext]_vars

\* Tokens as issued, decoded second by second.
InitToken == FilterIdle /\ StepsIdle /\ CallsIdle /\ TokenIdle /\ DbIdle /\ VerifyIdle /\ FlagIdle
    /\ ModIdle /\ ListenersIdle
SpecToken == InitToken /\ [][TokenNext]_vars

SpecPurpose == InitToken /\ [][PurposeNext]_vars

\* Tokens as issued and altered in one byte, decoded inside and outside
\* the validity window.
SpecTamper == InitToken /\ [][TamperNext]_vars

\* Joins, reissues and POST /verify/{token} requests, interleaved.
InitVerify == FilterIdle /\ StepsIdle /\ CallsIdle /\ TokenIdle /\ DbIdle /\ VerifyIdle /\ FlagIdle
    /\ ModIdle /\ ListenersIdle
SpecVerify == InitVerify /\ [][VerifyNext]_vars

\* Messages posted and screened, interleaved.
InitFlag == FilterInit /\ StepsIdle /\ CallsIdle /\ TokenIdle /\ DbIdle /\ VerifyIdle /\ FlagIdle
    /\ ModIdle /\ ListenersIdle
SpecFlag == InitFlag /\ [][FlagNext]_vars

\* Alerts, button clicks and /kick invocations, interleaved; blacklist.txt
\* holds the one term "ax".
InitMod == FilterWith({<<"a", "x">>}) /\ StepsIdle /\ CallsIdle /\ TokenIdle /\ DbIdle /\ VerifyIdle
    /\ FlagIdle /\ ModIdle /\ ListenersIdle
SpecMod == InitMod /\ [][ModNext]_vars

\* Mutations and scheduled checks of the filter, statement by statement.
InitSteps == FilterIdle /\ StepsIdle /\ CallsIdle /\ TokenIdle /\ DbIdle /\ VerifyIdle
    /\ FlagIdle /\ ModIdle /\ ListenersIdle
SpecSteps == InitSteps /\ [][StepsNext]_vars

\* Screening, one button click, one slash command and the listeners they
\* set off, interleaved; blacklist.txt holds the one term "ax".
InitEngine == FilterWith({<<"a", "x">>}) /\ StepsIdle /\ CallsIdle /\ TokenIdle /\ DbIdle
    /\ VerifyIdle /\ FlagIdle /\ ModIdle /\ ListenersIdle
SpecEngine == InitEngine /\ [][EngineNext]_vars

\* The verification flow together with the listeners and handlers that
\* touch a member's users row afterwards.
InitLife == FilterWith({<<"a", "x">>}) /\ StepsIdle /\ CallsIdle /\ TokenIdle /\ DbIdle
    /\ VerifyIdle /\ FlagIdle /\ ModIdle /\ ListenersIdle
SpecLife == InitLife /\ [][LifeNext]_vars

\* Two slash commands whose transactions interleave.
InitRace == FilterWith({<<"a", "x">>}) /\ StepsIdle /\ CallsIdle /\ TokenIdle /\ DbIdle
    /\ VerifyIdle /\ FlagIdle /\ ModIdle /\ ListenersIdle
SpecRace == InitRace /\ [][RaceNext]_vars

\* The member gateway events and their listeners.
InitGateway == FilterWith({<<"a", "x">>}) /\ StepsIdle /\ CallsIdle /\ TokenIdle /\ DbIdle
    /\ VerifyIdle /\ FlagIdle /\ ModIdle /\ ListenersIdle
SpecGateway == InitGateway /\ [][GatewayNext]_vars

\* The handlers' awaits, statement by statement, two handlers interleaved.
InitCalls == FilterIdle /\ StepsIdle /\ CallsIdle /\ TokenIdle /\ DbIdle
    /\ VerifyIdle /\ FlagIdle /\ ModIdle /\ ListenersIdle
SpecCalls == InitCalls /\ [][CallsNext]_vars

\* One alert, clicks on its buttons and the time between them; blacklist.txt
\* holds the one term "ax".
InitSurface == FilterWith({<<"a", "x">>}) /\ StepsIdle /\ CallsIdle /\ TokenIdle
    /\ DbIdle /\ VerifyIdle /\ FlagIdle /\ ModIdle /\ ListenersIdle
SpecSurface == InitSurface /\ [][SurfaceNext]_vars

\* Humans join a guild they were not in and the two listeners of each join
\* run await by await; the event loop keeps running the tasks at hand.
InitJoin == FilterIdle /\ StepsIdle /\ CallsIdle /\ TokenIdle /\ DbIdle
    /\ VerifyIdle /\ FlagIdle /\ ModIdleWith(Moderators \cup Bots)
    /\ ListenersIdle
SpecJoin == InitJoin /\ [][JoinNext]_vars /\ WF_vars(JoinStep)

====
